---------------------------- MODULE Spec2Model ----------------------------
(***************************************************************************)
(* A model of the mbox-16 emulator: the memory fabric (core/components/    *)
(* mem.py) and the 6502 CPU core (core/components/cpu.py).  The machine    *)
(* state is carried through the instruction handlers as a record s with    *)
(* the CPU registers (A, X, Y, SP, PC, P), the backing bytearray (data),   *)
(* the handler tables (rh, wh), the calls made to write handlers (out)     *)
(* and the writes the CPU issued to the fabric (bus).                      *)
(***************************************************************************)
EXTENDS Integers, Sequences, FiniteSets, TLC

VARIABLES
    A, X, Y, SP, PC, P,   \* CPU registers (cpu.py 22-27)
    data,                 \* Memory.data: address -> byte, bytes equal to 0 left out
    read_handlers,        \* Memory.read_handlers: address -> value the handler returns
    write_handlers,       \* Memory.write_handlers: the addresses that have a handler
    out,                  \* the calls (addr, val) made to write handlers, in order
    bus,                  \* the writes (addr, val) the last operation issued, in order
    exc,                  \* the exception the last operation raised, NoExc if none
    op,                   \* the last operation: "init", "step", "reset", "run", ...
    ir,                   \* the opcode byte the last step fetched, NoOpcode before any
    calls,                \* open subroutine calls: (address of the JSR, SP before it)
    steps,                \* operations (steps, resets) performed so far
    run_n, run_i, run_x,  \* run(n): n, loop iterations done, steps taken in this run
    run_io,               \* run(n): a loop check read PC through a read handler
    args, ret,            \* the inputs of the last helper call or test, and its result
    asm,                  \* the Assembler object (asm.py 6-15)
    screen                \* the Screen object, its thread and its window (screen.py)

vars == <<A, X, Y, SP, PC, P, data, read_handlers, write_handlers, out, bus,
          exc, op, ir, calls, steps, run_n, run_i, run_x, run_io, args, ret,
          asm, screen>>

-------------------------------------------------------------------------------------------------------------------------------------------
(* Python's integer operators on the values the emulator handles.          *)

\* x & 0xFF and x & 0xFFFF, for any integer x (also a negative one)
Mask8(x) == x % 256

Mask16(x) == x % 65536

\* (x & f) != 0, for f a single bit (a power of two)
TestBit(x, f) == (x \div f) % 2 = 1

\* x | f and x & ~f, for f a single bit
SetBit(x, f) == IF TestBit(x, f) THEN x ELSE x + f

ClearBit(x, f) == IF TestBit(x, f) THEN x - f ELSE x

\* ((x ^ y) & f) != 0, for f a single bit
XorBit(x, y, f) == TestBit(x, f) # TestBit(y, f)

\* (hi << 8) | lo, for lo a byte
Word(hi, lo) == hi * 256 + lo

\* the two-operand operators work on values below 2^BitWidth
BitWidth == 9

RECURSIVE AndRec(_, _, _)
AndRec(x, y, f) ==
    IF f = 0 THEN 0
    ELSE (IF TestBit(x, f) /\ TestBit(y, f) THEN f ELSE 0) + AndRec(x, y, f \div 2)

\* x & y, x | y, x ^ y for x, y in 0 .. 2^BitWidth - 1
BitAnd(x, y) == AndRec(x, y, 2 ^ (BitWidth - 1))

BitOr(x, y) == x + y - BitAnd(x, y)

BitXor(x, y) == x + y - 2 * BitAnd(x, y)

\* instructions a behaviour executes at most
MaxSteps == 4

Byte == 0 .. 255

---------------------------------------------------------------------------
(* Flag (cpu.py 3-12)                                                      *)

FlagC == 1
FlagZ == 2
FlagI == 4
FlagD == 8
FlagB == 16
FlagU == 32
FlagV == 64
FlagN == 128

---------------------------------------------------------------------------
(* Memory (mem.py)                                                         *)

BASIC_ROM_START == 40960
KERNAL_ROM_START == 57344
ROM_SIZE == 8192
IO_START == 53248
IO_END == 57343

\* self.data[a]: the bytearray starts all zero
Data(d, a) == IF a \in DOMAIN d THEN d[a] ELSE 0

\* self.data[a] = v
Store(d, a, v) ==
    IF v = 0 THEN [x \in DOMAIN d \ {a} |-> d[x]]
    ELSE [x \in DOMAIN d \cup {a} |-> IF x = a THEN v ELSE d[x]]

\* read that never consults the read handlers
mem_read_ignores_handler(s, addr) == Data(s.data, Mask16(addr))

mem_read(s, addr) ==
    LET a == Mask16(addr)
    IN  IF a \in DOMAIN s.rh THEN s.rh[a] ELSE Data(s.data, a)

\* write that calls the handler and then goes on to the backing byte
mem_write_no_return(s, addr, val) ==
    LET a == Mask16(addr)
        s1 == IF a \in s.wh THEN [s EXCEPT !.out = Append(@, <<a, Mask8(val)>>)]
              ELSE s
    IN  IF BASIC_ROM_START <= a /\ a < BASIC_ROM_START + ROM_SIZE THEN s1
        ELSE IF KERNAL_ROM_START <= a /\ a < KERNAL_ROM_START + ROM_SIZE THEN s1
        ELSE [s1 EXCEPT !.data = Store(@, a, Mask8(val))]

\* write that stores the value as it is given
mem_write_no_mask(s, addr, val) ==
    LET a == Mask16(addr)
    IN  IF a \in s.wh
        THEN [s EXCEPT !.out = Append(@, <<a, Mask8(val)>>)]
        ELSE IF BASIC_ROM_START <= a /\ a < BASIC_ROM_START + ROM_SIZE THEN s
        ELSE IF KERNAL_ROM_START <= a /\ a < KERNAL_ROM_START + ROM_SIZE THEN s
        ELSE [s EXCEPT !.data = Store(@, a, val)]

\* write whose BASIC window ends one byte early
mem_write_open_top(s, addr, val) ==
    LET a == Mask16(addr)
    IN  IF a \in s.wh
        THEN [s EXCEPT !.out = Append(@, <<a, Mask8(val)>>)]
        ELSE IF BASIC_ROM_START <= a /\ a < BASIC_ROM_START + ROM_SIZE - 1 THEN s
        ELSE IF KERNAL_ROM_START <= a /\ a < KERNAL_ROM_START + ROM_SIZE THEN s
        ELSE [s EXCEPT !.data = Store(@, a, Mask8(val))]

mem_write(s, addr, val) ==
    LET a == Mask16(addr)
    IN  IF a \in s.wh
        THEN [s EXCEPT !.out = Append(@, <<a, Mask8(val)>>)]
        ELSE IF BASIC_ROM_START <= a /\ a < BASIC_ROM_START + ROM_SIZE THEN s
        ELSE IF KERNAL_ROM_START <= a /\ a < KERNAL_ROM_START + ROM_SIZE THEN s
        ELSE [s EXCEPT !.data = Store(@, a, Mask8(val))]

\* self.size = 0x10000
SIZE == 65536

\* a bytearray index that does not raise: Python counts a negative index
\* from the end
InRange(i) == 0 - SIZE <= i /\ i < SIZE

Index(i) == IF i < 0 THEN i + SIZE ELSE i

RECURSIVE load_rom(_, _, _)
\* for i, b in enumerate(code): self.data[base + i] = b; the bytes before an
\* index that raises stay written
load_rom(d, code, base) ==
    IF code = <<>> \/ ~InRange(base) THEN d
    ELSE load_rom(Store(d, Index(base), Head(code)), Tail(code), base + 1)

---------------------------------------------------------------------------
(* CPU memory and stack helpers (cpu.py 35-84)                             *)

Ret(s, v) == [s |-> s, v |-> v]

cpu_read(s, addr) == mem_read(s, Mask16(addr))

\* write that stores into the bytearray itself, past the fabric's guards
cpu_write_direct(s, addr, value) ==
    LET a == Mask16(addr)
        v == Mask8(value)
    IN  [s EXCEPT !.bus = Append(@, <<a, v>>), !.data = Store(@, a, v)]

cpu_write(s, addr, value) ==
    LET a == Mask16(addr)
        v == Mask8(value)
    IN  mem_write([s EXCEPT !.bus = Append(@, <<a, v>>)], a, v)

\* read_word with the two bytes taken in the wrong order
read_word_swapped(s, addr) ==
    LET lo == cpu_read(s, addr)
        hi == cpu_read(s, addr + 1)
    IN  Word(lo, hi)

read_word(s, addr) ==
    LET lo == cpu_read(s, addr)
        hi == cpu_read(s, addr + 1)
    IN  Word(hi, lo)

push(s, value) ==
    [cpu_write(s, 256 + s.SP, value) EXCEPT !.SP = Mask8(s.SP - 1)]

\* pull that reads the stack before it moves SP
pull_read_first(s) ==
    Ret([s EXCEPT !.SP = Mask8(s.SP + 1)], cpu_read(s, 256 + s.SP))

pull(s) ==
    LET s1 == [s EXCEPT !.SP = Mask8(s.SP + 1)]
    IN  Ret(s1, cpu_read(s1, 256 + s1.SP))

set_flag(s, flag, cond) ==
    IF cond THEN [s EXCEPT !.P = SetBit(@, flag)]
    ELSE [s EXCEPT !.P = ClearBit(@, flag)]

get_flag(s, flag) == TestBit(s.P, flag)

---------------------------------------------------------------------------
(* Addressing modes (cpu.py 88-166): each returns the state with PC moved  *)
(* past the operand and the value or address it evaluated.                 *)

\* immediate that leaves PC on the operand byte
immediate_no_advance(s) == Ret(s, cpu_read(s, s.PC))

immediate(s) == Ret([s EXCEPT !.PC = @ + 1], cpu_read(s, s.PC))

zero_page(s) == Ret([s EXCEPT !.PC = @ + 1], cpu_read(s, s.PC))

zero_page_x(s) ==
    Ret([s EXCEPT !.PC = @ + 1], Mask8(cpu_read(s, s.PC) + s.X))

zero_page_y(s) ==
    Ret([s EXCEPT !.PC = @ + 1], Mask8(cpu_read(s, s.PC) + s.Y))

absolute(s) == Ret([s EXCEPT !.PC = @ + 2], read_word(s, s.PC))

absolute_x(s) ==
    Ret([s EXCEPT !.PC = @ + 2], Mask16(read_word(s, s.PC) + s.X))

absolute_y(s) ==
    Ret([s EXCEPT !.PC = @ + 2], Mask16(read_word(s, s.PC) + s.Y))

\* indirect without the page wrap: the high byte always comes from ptr + 1
indirect_no_wrap(s) ==
    LET ptr == read_word(s, s.PC)
        lo == cpu_read(s, ptr)
        hi == cpu_read(s, ptr + 1)
    IN  Ret([s EXCEPT !.PC = @ + 2], Word(hi, lo))

indirect(s) ==
    LET ptr == read_word(s, s.PC)
        lo == cpu_read(s, ptr)
        hi == IF Mask8(ptr) = 255
              THEN cpu_read(s, ptr - Mask8(ptr))    \* ptr & 0xFF00
              ELSE cpu_read(s, ptr + 1)
    IN  Ret([s EXCEPT !.PC = @ + 2], Word(hi, lo))

indexed_indirect(s) ==
    LET zp == Mask8(cpu_read(s, s.PC) + s.X)
        lo == cpu_read(s, zp)
        hi == cpu_read(s, Mask8(zp + 1))
    IN  Ret([s EXCEPT !.PC = @ + 1], Word(hi, lo))

indirect_indexed(s) ==
    LET zp == cpu_read(s, s.PC)
        lo == cpu_read(s, zp)
        hi == cpu_read(s, Mask8(zp + 1))
    IN  Ret([s EXCEPT !.PC = @ + 1], Word(hi, lo) + s.Y)

relative(s) ==
    LET offset == cpu_read(s, s.PC)
        s1 == [s EXCEPT !.PC = @ + 1]
    IN  IF offset < 128 THEN Ret(s1, s1.PC + offset)
        ELSE Ret(s1, s1.PC + offset - 256)

---------------------------------------------------------------------------
(* Instruction implementations (cpu.py 170-505)                            *)

\* self.set_flag(Flag.Z, v == 0); self.set_flag(Flag.N, v & 0x80)
set_zn(s, v) == set_flag(set_flag(s, FlagZ, v = 0), FlagN, TestBit(v, 128))

\* lda that sets Z and N from the accumulator it is about to replace
lda_flags_before(s, value) == LET v == Mask8(value) IN [set_zn(s, s.A) EXCEPT !.A = v]

lda(s, value) == LET v == Mask8(value) IN set_zn([s EXCEPT !.A = v], v)

ldx(s, value) == LET v == Mask8(value) IN set_zn([s EXCEPT !.X = v], v)

ldy(s, value) == LET v == Mask8(value) IN set_zn([s EXCEPT !.Y = v], v)

sta(s, addr) == cpu_write(s, addr, s.A)

stx(s, addr) == cpu_write(s, addr, s.X)

sty(s, addr) == cpu_write(s, addr, s.Y)

tax(s) == set_zn([s EXCEPT !.X = s.A], s.A)

tay(s) == set_zn([s EXCEPT !.Y = s.A], s.A)

txa(s) == set_zn([s EXCEPT !.A = s.X], s.X)

tya(s) == set_zn([s EXCEPT !.A = s.Y], s.Y)

tsx(s) == set_zn([s EXCEPT !.X = s.SP], s.SP)

txs(s) == [s EXCEPT !.SP = s.X]

pha(s) == push(s, s.A)

php(s) == push(s, SetBit(SetBit(s.P, FlagB), FlagU))

pla(s) == LET r == pull(s) IN set_zn([r.s EXCEPT !.A = r.v], r.v)

\* plp that takes the pulled byte as it is, B included
plp_keeps_break(s) ==
    LET r == pull(s)
    IN  [r.s EXCEPT !.P = SetBit(r.v, FlagU)]

plp(s) ==
    LET r == pull(s)
    IN  [r.s EXCEPT !.P = SetBit(ClearBit(r.v, FlagB), FlagU)]

\* adc with V taken from the sign change of A alone
adc_overflow_sign_only(s, value) ==
    LET carry == IF get_flag(s, FlagC) THEN 1 ELSE 0
        result == s.A + value + carry
        s1 == set_flag(s, FlagC, result > 255)
        s2 == set_flag(s1, FlagZ, Mask8(result) = 0)
        s3 == set_flag(s2, FlagN, TestBit(result, 128))
        s4 == set_flag(s3, FlagV, XorBit(s.A, result, 128))
    IN  [s4 EXCEPT !.A = Mask8(result)]

\* adc that leaves the carry out of the sum
adc_no_carry(s, value) ==
    LET result == s.A + value
        s1 == set_flag(s, FlagC, result > 255)
        s2 == set_flag(s1, FlagZ, Mask8(result) = 0)
        s3 == set_flag(s2, FlagN, TestBit(result, 128))
        s4 == set_flag(s3, FlagV,
                  ~XorBit(s.A, value, 128) /\ XorBit(s.A, result, 128))
    IN  [s4 EXCEPT !.A = Mask8(result)]

adc(s, value) ==
    LET carry == IF get_flag(s, FlagC) THEN 1 ELSE 0
        result == s.A + value + carry
        s1 == set_flag(s, FlagC, result > 255)
        s2 == set_flag(s1, FlagZ, Mask8(result) = 0)
        s3 == set_flag(s2, FlagN, TestBit(result, 128))
        s4 == set_flag(s3, FlagV,
                  ~XorBit(s.A, value, 128) /\ XorBit(s.A, result, 128))
    IN  [s4 EXCEPT !.A = Mask8(result)]

\* sbc that negates the operand (two's complement) instead of inverting it
sbc_negated(s, value0) ==
    LET carry == IF get_flag(s, FlagC) THEN 1 ELSE 0
        value == Mask8(0 - value0)
        result == s.A + value + carry
        s1 == set_flag(s, FlagC, result > 255)
        s2 == set_flag(s1, FlagZ, Mask8(result) = 0)
        s3 == set_flag(s2, FlagN, TestBit(result, 128))
        s4 == set_flag(s3, FlagV,
                  ~XorBit(s.A, value, 128) /\ XorBit(s.A, result, 128))
    IN  [s4 EXCEPT !.A = Mask8(result)]

\* sbc that takes a borrow when C is set
sbc_borrow_inverted(s, value0) ==
    LET carry == IF get_flag(s, FlagC) THEN 0 ELSE 1
        value == BitXor(value0, 255)
        result == s.A + value + carry
        s1 == set_flag(s, FlagC, result > 255)
        s2 == set_flag(s1, FlagZ, Mask8(result) = 0)
        s3 == set_flag(s2, FlagN, TestBit(result, 128))
        s4 == set_flag(s3, FlagV,
                  ~XorBit(s.A, value, 128) /\ XorBit(s.A, result, 128))
    IN  [s4 EXCEPT !.A = Mask8(result)]

sbc(s, value0) ==
    LET carry == IF get_flag(s, FlagC) THEN 1 ELSE 0
        value == BitXor(value0, 255)
        result == s.A + value + carry
        s1 == set_flag(s, FlagC, result > 255)
        s2 == set_flag(s1, FlagZ, Mask8(result) = 0)
        s3 == set_flag(s2, FlagN, TestBit(result, 128))
        s4 == set_flag(s3, FlagV,
                  ~XorBit(s.A, value, 128) /\ XorBit(s.A, result, 128))
    IN  [s4 EXCEPT !.A = Mask8(result)]

and_(s, value) ==
    LET v == BitAnd(s.A, value) IN set_zn([s EXCEPT !.A = v], v)

ora(s, value) ==
    LET v == BitOr(s.A, value) IN set_zn([s EXCEPT !.A = v], v)

eor(s, value) ==
    LET v == BitXor(s.A, value) IN set_zn([s EXCEPT !.A = v], v)

\* temp = reg - value; C = reg >= value; Z = (temp & 0xFF) == 0; N = temp & 0x80
compare(s, reg, value) ==
    LET temp == reg - value
        s1 == set_flag(s, FlagC, reg >= value)
        s2 == set_flag(s1, FlagZ, Mask8(temp) = 0)
    IN  set_flag(s2, FlagN, TestBit(temp, 128))

cmp(s, value) == compare(s, s.A, value)

cpx(s, value) == compare(s, s.X, value)

cpy(s, value) == compare(s, s.Y, value)

inc(s, addr) ==
    LET value == Mask8(cpu_read(s, addr) + 1)
    IN  set_zn(cpu_write(s, addr, value), value)

\* inx without the wrap at $FF
inx_unmasked(s) == LET v == s.X + 1 IN set_zn([s EXCEPT !.X = v], v)

inx(s) == LET v == Mask8(s.X + 1) IN set_zn([s EXCEPT !.X = v], v)

iny(s) == LET v == Mask8(s.Y + 1) IN set_zn([s EXCEPT !.Y = v], v)

dec(s, addr) ==
    LET value == Mask8(cpu_read(s, addr) - 1)
    IN  set_zn(cpu_write(s, addr, value), value)

dex(s) == LET v == Mask8(s.X - 1) IN set_zn([s EXCEPT !.X = v], v)

dey(s) == LET v == Mask8(s.Y - 1) IN set_zn([s EXCEPT !.Y = v], v)

\* addr is <<>> for the accumulator form (addr=None) and <<a>> for memory
asl(s, addr) ==
    LET value0 == IF addr = <<>> THEN s.A ELSE cpu_read(s, addr[1])
        s1 == set_flag(s, FlagC, TestBit(value0, 128))
        value == Mask8(value0 * 2)
        s2 == IF addr = <<>> THEN [s1 EXCEPT !.A = value]
              ELSE cpu_write(s1, addr[1], value)
    IN  set_zn(s2, value)

lsr(s, addr) ==
    LET value0 == IF addr = <<>> THEN s.A ELSE cpu_read(s, addr[1])
        s1 == set_flag(s, FlagC, TestBit(value0, 1))
        value == Mask8(value0 \div 2)
        s2 == IF addr = <<>> THEN [s1 EXCEPT !.A = value]
              ELSE cpu_write(s1, addr[1], value)
    IN  set_zn(s2, value)

rol(s, addr) ==
    LET carry_in == IF get_flag(s, FlagC) THEN 1 ELSE 0
        value0 == IF addr = <<>> THEN s.A ELSE cpu_read(s, addr[1])
        carry_out == TestBit(value0, 128)
        value == Mask8(BitOr(value0 * 2, carry_in))
        s1 == IF addr = <<>> THEN [s EXCEPT !.A = value]
              ELSE cpu_write(s, addr[1], value)
    IN  set_zn(set_flag(s1, FlagC, carry_out), value)

ror(s, addr) ==
    LET carry_in == IF get_flag(s, FlagC) THEN 1 ELSE 0
        value0 == IF addr = <<>> THEN s.A ELSE cpu_read(s, addr[1])
        carry_out == TestBit(value0, 1)
        value == Mask8(BitOr(carry_in * 128, value0 \div 2))
        s1 == IF addr = <<>> THEN [s EXCEPT !.A = value]
              ELSE cpu_write(s, addr[1], value)
    IN  set_zn(set_flag(s1, FlagC, carry_out), value)

bit(s, value) ==
    LET s1 == set_flag(s, FlagZ, BitAnd(s.A, value) = 0)
        s2 == set_flag(s1, FlagN, TestBit(value, 128))
    IN  set_flag(s2, FlagV, TestBit(value, 64))

jmp(s, addr) == [s EXCEPT !.PC = addr]

jsr(s, addr) ==
    LET s1 == push(s, (s.PC - 1) \div 256)
        s2 == push(s1, Mask8(s.PC - 1))
    IN  [s2 EXCEPT !.PC = addr]

\* rts that forgets the + 1
rts_no_increment(s) ==
    LET lo == pull(s)
        hi == pull(lo.s)
    IN  [hi.s EXCEPT !.PC = Word(hi.v, lo.v)]

rts(s) ==
    LET lo == pull(s)
        hi == pull(lo.s)
    IN  [hi.s EXCEPT !.PC = Word(hi.v, lo.v) + 1]

\* rti that adds 1 to the pulled address, as rts does
rti_incremented(s) ==
    LET p == pull(s)
        s1 == [p.s EXCEPT !.P = SetBit(ClearBit(p.v, FlagB), FlagU)]
        lo == pull(s1)
        hi == pull(lo.s)
    IN  [hi.s EXCEPT !.PC = Word(hi.v, lo.v) + 1]

rti(s) ==
    LET p == pull(s)
        s1 == [p.s EXCEPT !.P = SetBit(ClearBit(p.v, FlagB), FlagU)]
        lo == pull(s1)
        hi == pull(lo.s)
    IN  [hi.s EXCEPT !.PC = Word(hi.v, lo.v)]

clc(s) == set_flag(s, FlagC, FALSE)

sec(s) == set_flag(s, FlagC, TRUE)

cli(s) == set_flag(s, FlagI, FALSE)

sei(s) == set_flag(s, FlagI, TRUE)

clv(s) == set_flag(s, FlagV, FALSE)

cld(s) == set_flag(s, FlagD, FALSE)

sed(s) == set_flag(s, FlagD, TRUE)

\* brk that pushes PC without stepping over the padding byte
brk_no_padding(s) ==
    LET s2 == push(s, s.PC \div 256)
        s3 == push(s2, Mask8(s.PC))
        s4 == php(s3)
        s5 == set_flag(s4, FlagI, TRUE)
    IN  [s5 EXCEPT !.PC = read_word(s5, 65534)]

brk(s) ==
    LET s1 == [s EXCEPT !.PC = @ + 1]
        s2 == push(s1, s1.PC \div 256)
        s3 == push(s2, Mask8(s1.PC))
        s4 == php(s3)
        s5 == set_flag(s4, FlagI, TRUE)
    IN  [s5 EXCEPT !.PC = read_word(s5, 65534)]

nop(s) == s

\* branch that is taken when the condition is false
branch_inverted(s, cond) ==
    LET r == relative(s)
    IN  IF ~cond THEN [r.s EXCEPT !.PC = r.v] ELSE r.s

branch(s, cond) ==
    LET r == relative(s)
    IN  IF cond THEN [r.s EXCEPT !.PC = r.v] ELSE r.s

---------------------------------------------------------------------------
(* The opcode dispatch table (cpu.py 559-772).  An entry names the handler *)
(* (h), the addressing evaluator its lambda calls (ev; "bound" for a bound *)
(* method such as self.tax, "none" for a lambda that passes no argument),  *)
(* whether the lambda passes self.read(address) (rd) and, for a branch,    *)
(* the flag tested and the value it must have.                             *)

Bound(h) == [h |-> h, ev |-> "bound", rd |-> FALSE, flag |-> 0, want |-> FALSE]

Lam(h, ev, rd) == [h |-> h, ev |-> ev, rd |-> rd, flag |-> 0, want |-> FALSE]

Br(flag, want) == [h |-> "branch", ev |-> "relative", rd |-> FALSE, flag |-> flag, want |-> want]

opcode_table ==
       (169 :> Lam("lda", "immediate", FALSE)) @@ (165 :> Lam("lda", "zero_page", TRUE))
    @@ (181 :> Lam("lda", "zero_page_x", TRUE)) @@ (173 :> Lam("lda", "absolute", TRUE))
    @@ (189 :> Lam("lda", "absolute_x", TRUE)) @@ (185 :> Lam("lda", "absolute_y", TRUE))
    @@ (161 :> Lam("lda", "indexed_indirect", TRUE)) @@ (177 :> Lam("lda", "indirect_indexed", TRUE))
    @@ (162 :> Lam("ldx", "immediate", FALSE)) @@ (166 :> Lam("ldx", "zero_page", TRUE))
    @@ (182 :> Lam("ldx", "zero_page_y", TRUE)) @@ (174 :> Lam("ldx", "absolute", TRUE))
    @@ (190 :> Lam("ldx", "absolute_y", TRUE)) @@ (160 :> Lam("ldy", "immediate", FALSE))
    @@ (164 :> Lam("ldy", "zero_page", TRUE)) @@ (180 :> Lam("ldy", "zero_page_x", TRUE))
    @@ (172 :> Lam("ldy", "absolute", TRUE)) @@ (188 :> Lam("ldy", "absolute_x", TRUE))
    @@ (133 :> Lam("sta", "zero_page", FALSE)) @@ (149 :> Lam("sta", "zero_page_x", FALSE))
    @@ (141 :> Lam("sta", "absolute", FALSE)) @@ (157 :> Lam("sta", "absolute_x", FALSE))
    @@ (153 :> Lam("sta", "absolute_y", FALSE)) @@ (129 :> Lam("sta", "indexed_indirect", FALSE))
    @@ (145 :> Lam("sta", "indirect_indexed", FALSE)) @@ (134 :> Lam("stx", "zero_page", FALSE))
    @@ (150 :> Lam("stx", "zero_page_y", FALSE)) @@ (142 :> Lam("stx", "absolute", FALSE))
    @@ (132 :> Lam("sty", "zero_page", FALSE)) @@ (148 :> Lam("sty", "zero_page_x", FALSE))
    @@ (140 :> Lam("sty", "absolute", FALSE)) @@ (170 :> Bound("tax"))
    @@ (168 :> Bound("tay")) @@ (138 :> Bound("txa"))
    @@ (152 :> Bound("tya")) @@ (186 :> Bound("tsx"))
    @@ (154 :> Bound("txs")) @@ (72 :> Bound("pha"))
    @@ (8 :> Bound("php")) @@ (104 :> Bound("pla"))
    @@ (40 :> Bound("plp")) @@ (105 :> Lam("adc", "immediate", FALSE))
    @@ (101 :> Lam("adc", "zero_page", TRUE)) @@ (117 :> Lam("adc", "zero_page_x", TRUE))
    @@ (109 :> Lam("adc", "absolute", TRUE)) @@ (125 :> Lam("adc", "absolute_x", TRUE))
    @@ (121 :> Lam("adc", "absolute_y", TRUE)) @@ (97 :> Lam("adc", "indexed_indirect", TRUE))
    @@ (113 :> Lam("adc", "indirect_indexed", TRUE)) @@ (233 :> Lam("sbc", "immediate", FALSE))
    @@ (229 :> Lam("sbc", "zero_page", TRUE)) @@ (245 :> Lam("sbc", "zero_page_x", TRUE))
    @@ (237 :> Lam("sbc", "absolute", TRUE)) @@ (253 :> Lam("sbc", "absolute_x", TRUE))
    @@ (249 :> Lam("sbc", "absolute_y", TRUE)) @@ (225 :> Lam("sbc", "indexed_indirect", TRUE))
    @@ (241 :> Lam("sbc", "indirect_indexed", TRUE)) @@ (41 :> Lam("and_", "immediate", FALSE))
    @@ (37 :> Lam("and_", "zero_page", TRUE)) @@ (53 :> Lam("and_", "zero_page_x", TRUE))
    @@ (45 :> Lam("and_", "absolute", TRUE)) @@ (61 :> Lam("and_", "absolute_x", TRUE))
    @@ (57 :> Lam("and_", "absolute_y", TRUE)) @@ (33 :> Lam("and_", "indexed_indirect", TRUE))
    @@ (49 :> Lam("and_", "indirect_indexed", TRUE)) @@ (9 :> Lam("ora", "immediate", FALSE))
    @@ (5 :> Lam("ora", "zero_page", TRUE)) @@ (21 :> Lam("ora", "zero_page_x", TRUE))
    @@ (13 :> Lam("ora", "absolute", TRUE)) @@ (29 :> Lam("ora", "absolute_x", TRUE))
    @@ (25 :> Lam("ora", "absolute_y", TRUE)) @@ (1 :> Lam("ora", "indexed_indirect", TRUE))
    @@ (17 :> Lam("ora", "indirect_indexed", TRUE)) @@ (73 :> Lam("eor", "immediate", FALSE))
    @@ (69 :> Lam("eor", "zero_page", TRUE)) @@ (85 :> Lam("eor", "zero_page_x", TRUE))
    @@ (77 :> Lam("eor", "absolute", TRUE)) @@ (93 :> Lam("eor", "absolute_x", TRUE))
    @@ (89 :> Lam("eor", "absolute_y", TRUE)) @@ (65 :> Lam("eor", "indexed_indirect", TRUE))
    @@ (81 :> Lam("eor", "indirect_indexed", TRUE)) @@ (201 :> Lam("cmp", "immediate", FALSE))
    @@ (197 :> Lam("cmp", "zero_page", TRUE)) @@ (213 :> Lam("cmp", "zero_page_x", TRUE))
    @@ (205 :> Lam("cmp", "absolute", TRUE)) @@ (221 :> Lam("cmp", "absolute_x", TRUE))
    @@ (217 :> Lam("cmp", "absolute_y", TRUE)) @@ (193 :> Lam("cmp", "indexed_indirect", TRUE))
    @@ (209 :> Lam("cmp", "indirect_indexed", TRUE)) @@ (224 :> Lam("cpx", "immediate", FALSE))
    @@ (228 :> Lam("cpx", "zero_page", TRUE)) @@ (236 :> Lam("cpx", "absolute", TRUE))
    @@ (192 :> Lam("cpy", "immediate", FALSE)) @@ (196 :> Lam("cpy", "zero_page", TRUE))
    @@ (204 :> Lam("cpy", "absolute", TRUE)) @@ (230 :> Lam("inc", "zero_page", FALSE))
    @@ (246 :> Lam("inc", "zero_page_x", FALSE)) @@ (238 :> Lam("inc", "absolute", FALSE))
    @@ (254 :> Lam("inc", "absolute_x", FALSE)) @@ (232 :> Bound("inx"))
    @@ (200 :> Bound("iny")) @@ (198 :> Lam("dec", "zero_page", FALSE))
    @@ (214 :> Lam("dec", "zero_page_x", FALSE)) @@ (206 :> Lam("dec", "absolute", FALSE))
    @@ (222 :> Lam("dec", "absolute_x", FALSE)) @@ (202 :> Bound("dex"))
    @@ (136 :> Bound("dey")) @@ (10 :> Lam("asl", "none", FALSE))
    @@ (6 :> Lam("asl", "zero_page", FALSE)) @@ (22 :> Lam("asl", "zero_page_x", FALSE))
    @@ (14 :> Lam("asl", "absolute", FALSE)) @@ (30 :> Lam("asl", "absolute_x", FALSE))
    @@ (74 :> Lam("lsr", "none", FALSE)) @@ (70 :> Lam("lsr", "zero_page", FALSE))
    @@ (86 :> Lam("lsr", "zero_page_x", FALSE)) @@ (78 :> Lam("lsr", "absolute", FALSE))
    @@ (94 :> Lam("lsr", "absolute_x", FALSE)) @@ (42 :> Lam("rol", "none", FALSE))
    @@ (38 :> Lam("rol", "zero_page", FALSE)) @@ (54 :> Lam("rol", "zero_page_x", FALSE))
    @@ (46 :> Lam("rol", "absolute", FALSE)) @@ (62 :> Lam("rol", "absolute_x", FALSE))
    @@ (106 :> Lam("ror", "none", FALSE)) @@ (102 :> Lam("ror", "zero_page", FALSE))
    @@ (118 :> Lam("ror", "zero_page_x", FALSE)) @@ (110 :> Lam("ror", "absolute", FALSE))
    @@ (126 :> Lam("ror", "absolute_x", FALSE)) @@ (137 :> Lam("bit", "immediate", FALSE))
    @@ (36 :> Lam("bit", "zero_page", TRUE)) @@ (44 :> Lam("bit", "absolute", TRUE))
    @@ (76 :> Lam("jmp", "absolute", FALSE)) @@ (108 :> Lam("jmp", "indirect", FALSE))
    @@ (32 :> Lam("jsr", "absolute", FALSE)) @@ (96 :> Bound("rts"))
    @@ (64 :> Bound("rti")) @@ (0 :> Bound("brk"))
    @@ (234 :> Bound("nop")) @@ (24 :> Bound("clc"))
    @@ (56 :> Bound("sec")) @@ (88 :> Bound("cli"))
    @@ (120 :> Bound("sei")) @@ (184 :> Bound("clv"))
    @@ (216 :> Bound("cld")) @@ (248 :> Bound("sed"))
    @@ (144 :> Br(FlagC, FALSE)) @@ (176 :> Br(FlagC, TRUE))
    @@ (240 :> Br(FlagZ, TRUE)) @@ (48 :> Br(FlagN, TRUE))
    @@ (208 :> Br(FlagZ, FALSE)) @@ (16 :> Br(FlagN, FALSE))
    @@ (80 :> Br(FlagV, FALSE)) @@ (112 :> Br(FlagV, TRUE))

Eval(ev, s) ==
    CASE ev = "immediate" -> immediate(s)
      [] ev = "zero_page" -> zero_page(s)
      [] ev = "zero_page_x" -> zero_page_x(s)
      [] ev = "zero_page_y" -> zero_page_y(s)
      [] ev = "absolute" -> absolute(s)
      [] ev = "absolute_x" -> absolute_x(s)
      [] ev = "absolute_y" -> absolute_y(s)
      [] ev = "indirect" -> indirect(s)
      [] ev = "indexed_indirect" -> indexed_indirect(s)
      [] ev = "indirect_indexed" -> indirect_indexed(s)

\* a bound method, or a lambda that calls the handler with no argument
Call0(h, s) ==
    CASE h = "tax" -> tax(s) [] h = "tay" -> tay(s) [] h = "txa" -> txa(s)
      [] h = "tya" -> tya(s) [] h = "tsx" -> tsx(s) [] h = "txs" -> txs(s)
      [] h = "pha" -> pha(s) [] h = "php" -> php(s) [] h = "pla" -> pla(s)
      [] h = "plp" -> plp(s) [] h = "inx" -> inx(s) [] h = "iny" -> iny(s)
      [] h = "dex" -> dex(s) [] h = "dey" -> dey(s) [] h = "rts" -> rts(s)
      [] h = "rti" -> rti(s) [] h = "brk" -> brk(s) [] h = "nop" -> nop(s)
      [] h = "clc" -> clc(s) [] h = "sec" -> sec(s) [] h = "cli" -> cli(s)
      [] h = "sei" -> sei(s) [] h = "clv" -> clv(s) [] h = "cld" -> cld(s)
      [] h = "sed" -> sed(s)
      [] h = "asl" -> asl(s, <<>>) [] h = "lsr" -> lsr(s, <<>>)
      [] h = "rol" -> rol(s, <<>>) [] h = "ror" -> ror(s, <<>>)

\* a lambda that calls the handler with the value or address arg
Call1(h, s, arg) ==
    CASE h = "lda" -> lda(s, arg) [] h = "ldx" -> ldx(s, arg) [] h = "ldy" -> ldy(s, arg)
      [] h = "sta" -> sta(s, arg) [] h = "stx" -> stx(s, arg) [] h = "sty" -> sty(s, arg)
      [] h = "adc" -> adc(s, arg) [] h = "sbc" -> sbc(s, arg)
      [] h = "and_" -> and_(s, arg) [] h = "ora" -> ora(s, arg) [] h = "eor" -> eor(s, arg)
      [] h = "cmp" -> cmp(s, arg) [] h = "cpx" -> cpx(s, arg) [] h = "cpy" -> cpy(s, arg)
      [] h = "inc" -> inc(s, arg) [] h = "dec" -> dec(s, arg)
      [] h = "asl" -> asl(s, <<arg>>) [] h = "lsr" -> lsr(s, <<arg>>)
      [] h = "rol" -> rol(s, <<arg>>) [] h = "ror" -> ror(s, <<arg>>)
      [] h = "bit" -> bit(s, arg)
      [] h = "jmp" -> jmp(s, arg) [] h = "jsr" -> jsr(s, arg)

\* handler(): the table entry of opcode called on s
handler(s, opcode) ==
    LET e == opcode_table[opcode]
    IN  IF e.h = "branch" THEN branch(s, get_flag(s, e.flag) = e.want)
        ELSE IF e.ev \in {"bound", "none"} THEN Call0(e.h, s)
        ELSE LET o == Eval(e.ev, s)
                 arg == IF e.rd THEN cpu_read(o.s, o.v) ELSE o.v
             IN  Call1(e.h, o.s, arg)

---------------------------------------------------------------------------
(* The assembler's addressing modes (addrtype.py) and instruction sizes    *)
(* (asm.py 240-257).                                                       *)

IMM == 1
ZP == 2
ZPX == 3
ZPY == 4
ABS == 5
ABSX == 6
ABSY == 7
INDX == 8
INDY == 9
LABEL == 10
BYTE == 11
ACC == 12
IMPLIED == 13
IND == 14
REL == 15

instr_size(addrtype) ==
    IF addrtype \in {IMPLIED, ACC} THEN 1
    ELSE IF addrtype = IMM THEN 2
    ELSE IF addrtype \in {ZP, ZPX, ZPY, INDX, INDY, REL} THEN 2
    ELSE IF addrtype \in {ABS, ABSX, ABSY, IND} THEN 3
    ELSE IF addrtype = BYTE THEN 1
    ELSE 1

\* the addressing mode of a dispatch entry: the evaluator its lambda calls
ModeOf(e) ==
    CASE e.ev = "bound" -> IMPLIED
      [] e.ev = "none" -> ACC
      [] e.ev = "immediate" -> IMM
      [] e.ev = "zero_page" -> ZP
      [] e.ev = "zero_page_x" -> ZPX
      [] e.ev = "zero_page_y" -> ZPY
      [] e.ev = "absolute" -> ABS
      [] e.ev = "absolute_x" -> ABSX
      [] e.ev = "absolute_y" -> ABSY
      [] e.ev = "indirect" -> IND
      [] e.ev = "indexed_indirect" -> INDX
      [] e.ev = "indirect_indexed" -> INDY
      [] e.ev = "relative" -> REL

---------------------------------------------------------------------------
(* Exceptions: the type and the values the exception carries.              *)

\* bytearray index out of range
IndexError == [type |-> "IndexError", args |-> <<>>]

NoExc == [type |-> "none", args |-> <<>>]

\* self.opcode_table[opcode] on a missing key: KeyError(opcode)
KeyError(key) == [type |-> "KeyError", args |-> <<key>>]

\* the else branch of step (cpu.py 785), taken only for an entry that is None
NotImplementedError(opcode, addr) ==
    [type |-> "NotImplementedError", args |-> <<opcode, addr>>]

---------------------------------------------------------------------------
(* Python strings as TLA+ strings: the str methods, int(), ord() and the   *)
(* two regular expressions the assembler uses (asm.py).  Positions count   *)
(* from 1.  A function that can raise returns the value (v) and the        *)
(* exception (exc).                                                        *)

Ok(v) == [v |-> v, exc |-> NoExc]

Raise(e) == [v |-> <<>>, exc |-> e]

Chr(s, i) == SubSeq(s, i, i)

Chars(s) == {Chr(s, i) : i \in 1 .. Len(s)}

whitespace == {" ", "\t"}

ascii_lowercase == "abcdefghijklmnopqrstuvwxyz"

ascii_uppercase == "ABCDEFGHIJKLMNOPQRSTUVWXYZ"

hexdigits == "0123456789abcdef"

\* the characters with codes 32 .. 95, in order (those with codes 97 .. 122
\* are ascii_lowercase)
printable ==
    " !\"#$%&'()*+,-./0123456789:;<=>?@ABCDEFGHIJKLMNOPQRSTUVWXYZ[\\]^_"

\* s.find(c) + 1: the position of the first c in s, 0 when there is none
find(s, c) ==
    IF \E i \in 1 .. Len(s) : Chr(s, i) = c
    THEN CHOOSE i \in 1 .. Len(s) :
            Chr(s, i) = c /\ \A j \in 1 .. i - 1 : Chr(s, j) # c
    ELSE 0

startswith(s, p) == Len(s) >= Len(p) /\ SubSeq(s, 1, Len(p)) = p

endswith(s, p) == Len(s) >= Len(p) /\ SubSeq(s, Len(s) - Len(p) + 1, Len(s)) = p

RECURSIVE strip(_)
strip(s) ==
    IF s = "" THEN s
    ELSE IF Head(s) \in whitespace THEN strip(Tail(s))
    ELSE IF Chr(s, Len(s)) \in whitespace THEN strip(SubSeq(s, 1, Len(s) - 1))
    ELSE s

\* s.split(c, 1)
split1(s, c) ==
    LET cut(i) == IF i = 0 THEN <<s>>
                  ELSE <<SubSeq(s, 1, i - 1), SubSeq(s, i + 1, Len(s))>>
    IN  cut(find(s, c))

RECURSIVE split(_, _)
\* s.split(c)
split(s, c) ==
    LET cut(i) == IF i = 0 THEN <<s>>
                  ELSE <<SubSeq(s, 1, i - 1)>> \o split(SubSeq(s, i + 1, Len(s)), c)
    IN  cut(find(s, c))

RECURSIVE split_ws(_)
\* s.split(): the fields between runs of whitespace
split_ws(s) ==
    LET fields(t, ws) ==
            IF t = "" THEN <<>>
            ELSE IF ws = 0 THEN <<t>>
            ELSE <<SubSeq(t, 1, ws - 1)>> \o split_ws(SubSeq(t, ws + 1, Len(t)))
        first(t) == IF \E i \in 1 .. Len(t) : Chr(t, i) \in whitespace
                    THEN CHOOSE i \in 1 .. Len(t) :
                            /\ Chr(t, i) \in whitespace
                            /\ \A j \in 1 .. i - 1 : Chr(t, j) \notin whitespace
                    ELSE 0
        trimmed(t) == fields(t, first(t))
    IN  trimmed(strip(s))

\* text.splitlines(), for lines that end in \n
splitlines(text) ==
    LET lines(parts) == IF parts[Len(parts)] = "" THEN SubSeq(parts, 1, Len(parts) - 1)
                        ELSE parts
    IN  lines(split(text, "\n"))

RECURSIVE translate(_, _, _)
translate(s, from, to) ==
    LET chr(i) == IF i > 0 THEN Chr(to, i) ELSE Head(s)
    IN  IF s = "" THEN s
        ELSE chr(find(from, Head(s))) \o translate(Tail(s), from, to)

lower(s) == translate(s, ascii_uppercase, ascii_lowercase)

upper(s) == translate(s, ascii_lowercase, ascii_uppercase)

isdigit(s) == s # "" /\ \A i \in 1 .. Len(s) : find(hexdigits, Chr(s, i)) \in 1 .. 10

isidentifier(s) ==
    /\ s # ""
    /\ find(hexdigits, Head(s)) \notin 1 .. 10
    /\ \A i \in 1 .. Len(s) :
          \/ find(ascii_lowercase, Chr(s, i)) > 0
          \/ find(ascii_uppercase, Chr(s, i)) > 0
          \/ find("0123456789_", Chr(s, i)) > 0

TypeError(msg) == [type |-> "TypeError", args |-> <<msg>>]

ValueError(msg) == [type |-> "ValueError", args |-> <<msg>>]

SyntaxError(msg) == [type |-> "SyntaxError", args |-> <<msg>>]

\* ord(s)
ord(s) ==
    LET code(lc, pr) == IF lc > 0 THEN lc + 96 ELSE pr + 31
    IN  IF Len(s) = 1 THEN Ok(code(find(ascii_lowercase, s), find(printable, s)))
        ELSE Raise(TypeError("ord() expected a character"))

RECURSIVE digits_value(_, _, _)
digits_value(s, base, acc) ==
    IF s = "" THEN acc
    ELSE digits_value(Tail(s), base, acc * base + find(hexdigits, lower(Head(s))) - 1)

\* int(s, base) for base 10, 16 and 0: an optional sign, then for base 16 and
\* 0 an optional 0x, then digits; with base 0 a decimal number takes no
\* leading zero.  (Underscores, inner whitespace and the 0o and 0b prefixes
\* are not modelled.)
int(s, base) ==
    LET number(digits, radix, sign) ==
            IF /\ digits # ""
               /\ \A i \in 1 .. Len(digits) :
                     find(hexdigits, lower(Chr(digits, i))) \in 1 .. radix
               /\ (base = 0 /\ radix = 10 /\ Head(digits) = "0") =>
                     \A i \in 1 .. Len(digits) : Chr(digits, i) = "0"
            THEN Ok(sign * digits_value(digits, radix, 0))
            ELSE Raise(ValueError("invalid literal for int(): " \o s))
        unsigned(body, sign) ==
            IF base \in {0, 16} /\ startswith(lower(body), "0x")
            THEN number(SubSeq(body, 3, Len(body)), 16, sign)
            ELSE number(body, IF base = 0 THEN 10 ELSE base, sign)
    IN  IF s # "" /\ Head(s) = "-" THEN unsigned(Tail(s), 0 - 1)
        ELSE IF s # "" /\ Head(s) = "+" THEN unsigned(Tail(s), 1)
        ELSE unsigned(s, 1)

\* match(r'^([A-Za-z]{2,3})(?:\s+(.*))?$', line): the groups (the second one
\* empty when it takes no part), <<>> when the line does not match
match_instr(line) ==
    LET letter(i) == \/ find(ascii_lowercase, Chr(line, i)) > 0
                     \/ find(ascii_uppercase, Chr(line, i)) > 0
        groups(n) ==
            IF n = 0 THEN <<>>
            ELSE IF Len(line) = n THEN <<line, "">>
            ELSE IF Chr(line, n + 1) \in whitespace
            THEN <<SubSeq(line, 1, n), strip(SubSeq(line, n + 1, Len(line)))>>
            ELSE <<>>
    IN  groups(IF Len(line) >= 3 /\ letter(1) /\ letter(2) /\ letter(3) THEN 3
               ELSE IF Len(line) >= 2 /\ letter(1) /\ letter(2) THEN 2
               ELSE 0)

\* match(r'^([A-Za-z_][A-Za-z0-9_]*)\s*([\+\-])\s*(\d+)$', val): the three
\* groups, <<>> when val does not match
match_expr(val) ==
    LET groups(left, sign, right) ==
            IF /\ isidentifier(left) /\ startswith(val, left)
               /\ isdigit(right) /\ endswith(val, right)
            THEN <<left, sign, right>>
            ELSE <<>>
        at(k) == groups(strip(SubSeq(val, 1, k - 1)), Chr(val, k),
                        strip(SubSeq(val, k + 1, Len(val))))
    IN  IF \E i \in 1 .. Len(val) : Chr(val, i) \in {"+", "-"}
        THEN at(CHOOSE i \in 1 .. Len(val) :
                   /\ Chr(val, i) \in {"+", "-"}
                   /\ \A j \in 1 .. i - 1 : Chr(val, j) \notin {"+", "-"})
        ELSE <<>>

---------------------------------------------------------------------------
(* Python bytes and bytearray: the length and the bytes that are not 0,    *)
(* by index from 0.                                                        *)

\* bytearray(n)
bytearray(n) == [len |-> n, at |-> [x \in {} |-> 0]]

\* a slice bound brought into 0 .. len(b)
clamp(b, i) ==
    IF i < 0 THEN (IF i + b.len < 0 THEN 0 ELSE i + b.len)
    ELSE IF i > b.len THEN b.len ELSE i

\* b[i:j] = xs: the slice is replaced by xs, the bytes after it move
setslice(b, i, j, xs) ==
    LET put(lo, hi, n) ==
            [len |-> b.len + n - (hi - lo),
             at |-> [k \in {x \in DOMAIN b.at : x < lo}
                           \cup {x + n - (hi - lo) : x \in {y \in DOMAIN b.at : y >= hi}}
                           \cup {lo + x - 1 : x \in {y \in 1 .. n : xs[y] # 0}} |->
                       IF k < lo THEN b.at[k]
                       ELSE IF k < lo + n THEN xs[k - lo + 1]
                       ELSE b.at[k - n + (hi - lo)]]]
        ordered(lo, hi) == put(lo, IF hi < lo THEN lo ELSE hi, Len(xs))
    IN  ordered(clamp(b, i), clamp(b, j))

\* b[i] = v raises IndexError for an index outside -len(b) .. len(b) - 1
setitem_exc(b, i) ==
    IF 0 - b.len <= i /\ i < b.len THEN NoExc ELSE IndexError

\* b[i] = v
setitem(b, i, v) ==
    IF setitem_exc(b, i) # NoExc THEN b
    ELSE [b EXCEPT !.at = Store(@, IF i < 0 THEN i + b.len ELSE i, v)]

\* b[:end]
getslice(b, end) ==
    LET prefix(n) == [len |-> n, at |-> [k \in {x \in DOMAIN b.at : x < n} |-> b.at[k]]]
    IN  prefix(clamp(b, end))

---------------------------------------------------------------------------
(* The assembler (core/asm/asm.py).  An Assembler is the record of its     *)
(* attributes; emitted is the history of what the last second pass wrote:  *)
(* for every value or instruction, the pc, the parsed item and the bytes.  *)

\* AddrType(n).name
AddrTypeName(addrtype) ==
    <<"IMM", "ZP", "ZPX", "ZPY", "ABS", "ABSX", "ABSY", "INDX", "INDY", "LABEL",
      "BYTE", "ACC", "IMPLIED", "IND", "REL">>[addrtype]

\* the key of a dispatch entry in OPCODES: MNEMONIC_MODE, the bare mnemonic
\* for implied instructions and branches
KeyOf(e) ==
    LET key(mnemonic, mode) ==
            IF mode \in {IMPLIED, REL} THEN mnemonic
            ELSE mnemonic \o "_" \o AddrTypeName(mode)
    IN  key(IF e.h = "and_" THEN "AND"
            ELSE IF e.h # "branch" THEN upper(e.h)
            ELSE CASE e.flag = FlagC -> (IF e.want THEN "BCS" ELSE "BCC")
                   [] e.flag = FlagZ -> (IF e.want THEN "BEQ" ELSE "BNE")
                   [] e.flag = FlagN -> (IF e.want THEN "BMI" ELSE "BPL")
                   [] e.flag = FlagV -> (IF e.want THEN "BVS" ELSE "BVC"),
            ModeOf(e))

\* the opcode matrix: one table for the CPU's decoding and the assembler's
\* encoding
OPCODES ==
    LET matrix(table) ==
            [key \in {KeyOf(table[b]) : b \in DOMAIN table} |->
                CHOOSE b \in DOMAIN table : KeyOf(table[b]) = key]
    IN  matrix(opcode_table)

\* Assembler(origin)
Assembler(origin) ==
    [labels |-> [x \in {} |-> 0], output |-> bytearray(0), lines |-> <<>>,
     origin |-> origin, pc |-> origin, emitted |-> <<>>]

\* a classifier that tries the zero-page indexed rules before the absolute
\* indexed ones
parse_operand_zero_page_first(operand_, mnemonic) ==
    LET classify(operand, n, value) ==
            IF startswith(operand, "#") THEN <<IMM, SubSeq(operand, 2, n)>>
            ELSE IF startswith(operand, "(") /\ endswith(operand, ",X)")
            THEN <<INDX, SubSeq(operand, 2, n - 3)>>
            ELSE IF startswith(operand, "(") /\ endswith(operand, "),Y")
            THEN <<INDY, SubSeq(operand, 2, n - 3)>>
            ELSE IF startswith(operand, "(") /\ endswith(operand, ")")
            THEN <<IND, SubSeq(operand, 2, n - 1)>>
            ELSE IF endswith(operand, ",X") /\ startswith(value, "$") /\ Len(value) <= 3
            THEN <<ZPX, strip(value)>>
            ELSE IF endswith(operand, ",Y") /\ startswith(value, "$") /\ Len(value) <= 3
            THEN <<ZPY, strip(value)>>
            ELSE IF /\ endswith(operand, ",X")
                    /\ (startswith(value, "$") \/ isdigit(value) \/ isidentifier(value))
            THEN <<ABSX, strip(value)>>
            ELSE IF /\ endswith(operand, ",Y")
                    /\ (startswith(value, "$") \/ isdigit(value) \/ isidentifier(value))
            THEN <<ABSY, strip(value)>>
            ELSE IF upper(operand) = "A" THEN <<ACC, "None">>
            ELSE IF operand = "" THEN <<IMPLIED, "None">>
            ELSE IF /\ mnemonic \in {"BCC", "BCS", "BEQ", "BMI", "BNE", "BPL", "BVC", "BVS"}
                    /\ isidentifier(operand)
            THEN <<REL, operand>>
            ELSE IF startswith(operand, "$")
            THEN (IF n <= 3 THEN <<ZP, operand>> ELSE <<ABS, operand>>)
            ELSE IF isdigit(operand)
            THEN (IF int(operand, 10).v < 256 THEN <<ZP, operand>> ELSE <<ABS, operand>>)
            ELSE IF match_expr(operand) # <<>> THEN <<ABS, operand>>
            ELSE IF isidentifier(operand) THEN <<ABS, operand>>
            ELSE <<BYTE, operand>>
        stripped(operand) ==
            classify(operand, Len(operand), SubSeq(operand, 1, Len(operand) - 2))
    IN  stripped(strip(operand_))

\* the addressing type and the value; the value None, which is only ever
\* formatted into a message, is "None"
parse_operand(operand_, mnemonic) ==
    LET classify(operand, n, value) ==
            IF startswith(operand, "#") THEN <<IMM, SubSeq(operand, 2, n)>>
            ELSE IF startswith(operand, "(") /\ endswith(operand, ",X)")
            THEN <<INDX, SubSeq(operand, 2, n - 3)>>
            ELSE IF startswith(operand, "(") /\ endswith(operand, "),Y")
            THEN <<INDY, SubSeq(operand, 2, n - 3)>>
            ELSE IF startswith(operand, "(") /\ endswith(operand, ")")
            THEN <<IND, SubSeq(operand, 2, n - 1)>>
            ELSE IF /\ endswith(operand, ",X")
                    /\ (startswith(value, "$") \/ isdigit(value) \/ isidentifier(value))
            THEN <<ABSX, strip(value)>>
            ELSE IF /\ endswith(operand, ",Y")
                    /\ (startswith(value, "$") \/ isdigit(value) \/ isidentifier(value))
            THEN <<ABSY, strip(value)>>
            ELSE IF endswith(operand, ",X") /\ startswith(value, "$") /\ Len(value) <= 3
            THEN <<ZPX, strip(value)>>
            ELSE IF endswith(operand, ",Y") /\ startswith(value, "$") /\ Len(value) <= 3
            THEN <<ZPY, strip(value)>>
            ELSE IF upper(operand) = "A" THEN <<ACC, "None">>
            ELSE IF operand = "" THEN <<IMPLIED, "None">>
            ELSE IF /\ mnemonic \in {"BCC", "BCS", "BEQ", "BMI", "BNE", "BPL", "BVC", "BVS"}
                    /\ isidentifier(operand)
            THEN <<REL, operand>>
            ELSE IF startswith(operand, "$")
            THEN (IF n <= 3 THEN <<ZP, operand>> ELSE <<ABS, operand>>)
            ELSE IF isdigit(operand)
            THEN (IF int(operand, 10).v < 256 THEN <<ZP, operand>> ELSE <<ABS, operand>>)
            ELSE IF match_expr(operand) # <<>> THEN <<ABS, operand>>
            ELSE IF isidentifier(operand) THEN <<ABS, operand>>
            ELSE <<BYTE, operand>>
        stripped(operand) ==
            classify(operand, Len(operand), SubSeq(operand, 1, Len(operand) - 2))
    IN  stripped(strip(operand_))

\* the parsed line; <<>> stands for None
parse_line(line_) ==
    LET org(value) == IF value.exc # NoExc THEN value ELSE Ok(<<"org", value.v>>)
        res(value) == IF value.exc # NoExc THEN value ELSE Ok(<<"res", value.v>>)
        list(items) == [i \in DOMAIN items |-> strip(items[i])]
        instr(m) == IF m # <<>> THEN Ok(<<"instr", upper(m[1]), strip(m[2])>>)
                    ELSE Ok(<<>>)
        \* fields is line.split(), rest is line.split(None, 1)[1]
        directive(line, lower_, fields, rest) ==
            IF Len(fields) < 2 THEN Raise(IndexError)
            ELSE IF startswith(lower_, ".org")
            THEN org(IF startswith(fields[2], "$")
                     THEN int(SubSeq(fields[2], 2, Len(fields[2])), 16)
                     ELSE int(fields[2], 0))
            ELSE IF startswith(lower_, ".word") THEN Ok(<<"word", list(split(rest, ","))>>)
            ELSE IF startswith(lower_, ".byte") THEN Ok(<<"byte", list(split(rest, ","))>>)
            ELSE IF startswith(lower_, ".res") THEN res(int(rest, 10))
            ELSE IF startswith(lower_, ".stringz") THEN Ok(<<"string", rest, TRUE>>)
            ELSE Ok(<<"string", rest, FALSE>>)
        fielded(line, lower_, fields) ==
            directive(line, lower_, fields, strip(SubSeq(line, Len(fields[1]) + 1, Len(line))))
        parse(line, lower_) ==
            IF line = "" THEN Ok(<<>>)
            ELSE IF endswith(line, ":")
            THEN Ok(<<"label", strip(SubSeq(line, 1, Len(line) - 1))>>)
            ELSE IF \E name \in {".org", ".word", ".byte", ".res", ".string"} :
                        startswith(lower_, name)
            THEN fielded(line, lower_, split_ws(line))
            ELSE instr(match_instr(line))
        stripped(line) == parse(line, lower(line))
    IN  stripped(strip(split1(line_, ";")[1]))

\* self.labels[lbl] = pc
setlabel(labels, lbl, pc) ==
    [x \in DOMAIN labels \cup {lbl} |-> IF x = lbl THEN pc ELSE labels[x]]

\* a first pass in which .org leaves the pc alone
advance_org_ignored(pc, parsed) ==
    CASE parsed[1] = "word" -> pc + 2 * Len(parsed[2])
      [] parsed[1] = "byte" -> pc + Len(parsed[2])
      [] parsed[1] = "res" -> pc + parsed[2]
      [] parsed[1] = "instr" -> pc + instr_size(parse_operand(parsed[3], parsed[2])[1])
      [] OTHER -> pc

\* the pc after an org, word, byte, res or instr item (asm.py 181-196 and
\* 208-223)
advance(pc, parsed) ==
    CASE parsed[1] = "org" -> parsed[2]
      [] parsed[1] = "word" -> pc + 2 * Len(parsed[2])
      [] parsed[1] = "byte" -> pc + Len(parsed[2])
      [] parsed[1] = "res" -> pc + parsed[2]
      [] parsed[1] = "instr" -> pc + instr_size(parse_operand(parsed[3], parsed[2])[1])
      [] OTHER -> pc

\* what a .string or .stringz item adds to pc (asm.py 225-236): len(eval(s))
\* for a literal in double quotes, len(s) for a bare token, one more for
\* .stringz.  Escape sequences are not modelled.
string_size(s, nullterm) ==
    LET quoted == startswith(s, "\"") /\ endswith(s, "\"")
        size(slen) == Ok(IF nullterm THEN slen + 1 ELSE slen)
    IN  IF quoted /\ (Len(s) < 2 \/ find(SubSeq(s, 2, Len(s) - 1), "\"") > 0
                                 \/ find(SubSeq(s, 2, Len(s) - 1), "\\") > 0)
        THEN Raise(SyntaxError("invalid string literal"))
        ELSE size(IF quoted THEN Len(s) - 2 ELSE Len(s))

\* the body of first_pass's loop for one line: the assembler after it and the
\* exception it raised
first_pass_line(a, line) ==
    LET stored(b, l, parsed) == [b EXCEPT !.lines = Append(@, <<l, parsed>>)]
        \* the line has a label prefix
        prefixed(bound, rest, parsed_rest) ==
            IF strip(rest) = "" THEN [a |-> bound, exc |-> NoExc]
            ELSE IF parsed_rest.exc # NoExc THEN [a |-> bound, exc |-> parsed_rest.exc]
            ELSE IF parsed_rest.v = <<>> THEN [a |-> bound, exc |-> NoExc]
            ELSE [a |-> stored([bound EXCEPT !.pc = advance(@, parsed_rest.v)],
                               rest, parsed_rest.v),
                  exc |-> NoExc]
        label(lbl, rest) ==
            prefixed(stored([a EXCEPT !.labels = setlabel(@, lbl, a.pc)],
                            lbl \o ":", <<"label", lbl>>),
                     rest, parse_line(rest))
        string(parsed, size) ==
            IF size.exc # NoExc THEN [a |-> a, exc |-> size.exc]
            ELSE [a |-> stored([a EXCEPT !.pc = @ + size.v], line, parsed),
                  exc |-> NoExc]
        plain(parsed) ==
            IF parsed.exc # NoExc THEN [a |-> a, exc |-> parsed.exc]
            ELSE IF parsed.v = <<>> THEN [a |-> a, exc |-> NoExc]
            ELSE IF parsed.v[1] = "label"
            THEN [a |-> stored([a EXCEPT !.labels = setlabel(@, parsed.v[2], a.pc)],
                               line, parsed.v),
                  exc |-> NoExc]
            ELSE IF parsed.v[1] = "string"
            THEN string(parsed.v, string_size(parsed.v[2], parsed.v[3]))
            ELSE [a |-> stored([a EXCEPT !.pc = advance(@, parsed.v)], line, parsed.v),
                  exc |-> NoExc]
        coded(code, parts) ==
            IF find(code, ":") > 0 THEN label(strip(parts[1]), parts[2])
            ELSE plain(parse_line(line))
        stripped(code) == coded(code, split1(code, ":"))
    IN  stripped(strip(split1(line, ";")[1]))

RECURSIVE first_pass_from(_, _, _)
first_pass_from(r, lines, i) ==
    IF i > Len(lines) \/ r.exc # NoExc THEN r
    ELSE first_pass_from(first_pass_line(r.a, lines[i]), lines, i + 1)

first_pass(a, lines) ==
    first_pass_from([a |-> [a EXCEPT !.pc = a.origin], exc |-> NoExc], lines, 1)

RECURSIVE resolve_value(_, _)
resolve_value(labels, val_) ==
    LET expr(val, m) ==
            IF m[1] \in DOMAIN labels
            THEN Ok(IF m[2] = "+" THEN labels[m[1]] + int(m[3], 10).v
                    ELSE labels[m[1]] - int(m[3], 10).v)
            ELSE Raise(ValueError("Unknown label in expression: " \o val))
        indexed(parts) ==
            IF Len(parts) # 2
            THEN Raise(ValueError("too many values to unpack (expected 2)"))
            ELSE resolve_value(labels, strip(parts[1]))
        resolve(val, m) ==
            IF Len(val) >= 2 /\ Head(val) = "'" /\ Chr(val, Len(val)) = "'"
            THEN ord(SubSeq(val, 2, Len(val) - 1))
            ELSE IF find(val, ",") > 0 THEN indexed(split(val, ","))
            ELSE IF m # <<>> THEN expr(val, m)
            ELSE IF startswith(val, "$") THEN int(SubSeq(val, 2, Len(val)), 16)
            ELSE IF isdigit(val) THEN int(val, 10)
            ELSE IF val \in DOMAIN labels THEN Ok(labels[val])
            ELSE Raise(ValueError("Unknown value: " \o val))
        stripped(val) == resolve(val, match_expr(val))
    IN  stripped(strip(val_))

\* a displacement held at the nearest end of -128..127 when the target is
\* out of reach
encode_rel_saturating(target, pc) ==
    IF target - (pc + 2) > 127 THEN 127
    ELSE IF target - (pc + 2) < 0 - 128 THEN 128
    ELSE Mask8(target - (pc + 2))

\* a displacement counted from the branch opcode instead of the next instruction
encode_rel_from_opcode(target, pc) == Mask8(target - pc)

\* offset = (target - (pc + 2)) & 0xFF
encode_rel(target, pc) == Mask8(target - (pc + 2))

\* the opcode and the operand bytes
encode_instr(labels, mnemonic, addrtype, value, pc) ==
    LET opcode(key, operand_bytes) ==
            IF key \notin DOMAIN OPCODES
            THEN Raise(ValueError("Opcode not found for line: " \o key \o " " \o value))
            ELSE Ok(<<OPCODES[key], operand_bytes>>)
        resolved(v) ==
            IF v.exc # NoExc THEN Raise(v.exc)
            ELSE opcode(mnemonic \o "_" \o AddrTypeName(addrtype),
                        IF addrtype \in {ABS, ABSX, ABSY, IND}
                        THEN <<Mask8(v.v), Mask8(v.v \div 256)>>
                        ELSE <<Mask8(v.v)>>)
    IN  IF addrtype \in {IMM, ZP, ZPX, ZPY, ABS, ABSX, ABSY, IND, INDX, INDY}
        THEN resolved(resolve_value(labels, value))
        ELSE IF addrtype = ACC THEN opcode(mnemonic \o "_ACC", <<>>)
        ELSE IF addrtype \in {IMPLIED, BYTE} THEN opcode(mnemonic, <<>>)
        ELSE IF addrtype = REL
        THEN (IF value \in DOMAIN labels
              THEN opcode(mnemonic, <<encode_rel(labels[value], pc)>>)
              ELSE Raise(ValueError("Unknown branch label: " \o value)))
        ELSE Raise(ValueError("Unknown addressing mode for " \o mnemonic \o " " \o value))

\* a slice assignment that stores the bytes in reverse order
emit_slice_high_first(st, origin, xs) ==
    LET put(offset, n) ==
            [st EXCEPT !.output = setslice(@, offset, offset + n,
                                           [i \in 1 .. n |-> xs[n + 1 - i]]),
                       !.max_written = IF offset + n > @ THEN offset + n ELSE @,
                       !.pc = @ + n]
    IN  put(st.pc - origin, Len(xs))

\* the second pass writes xs at pc with a slice assignment
emit_slice(st, origin, xs) ==
    LET put(offset, n) ==
            [st EXCEPT !.output = setslice(@, offset, offset + n, xs),
                       !.max_written = IF offset + n > @ THEN offset + n ELSE @,
                       !.pc = @ + n]
    IN  put(st.pc - origin, Len(xs))

\* the second pass writes the byte b at pc with an index assignment
emit_item(st, origin, b) ==
    LET put(offset) ==
            IF setitem_exc(st.output, offset) # NoExc
            THEN [st EXCEPT !.exc = IndexError]
            ELSE [st EXCEPT !.output = setitem(@, offset, b),
                            !.max_written = IF offset + 1 > @ THEN offset + 1 ELSE @,
                            !.pc = @ + 1]
    IN  put(st.pc - origin)

\* what the second pass emitted at pc
logged(st, kind, at, value, bytes) ==
    [st EXCEPT !.emitted = Append(@, [pc |-> st.pc, kind |-> kind, at |-> at,
                                      value |-> value, bytes |-> bytes])]

RECURSIVE emit_values(_, _, _, _)
\* the loops over the values of a .word (asm.py 279-284) and of a .byte
\* (asm.py 287-292)
emit_values(st, a, kind, vals) ==
    LET next(st1) ==
            IF st1.exc # NoExc THEN [st EXCEPT !.exc = st1.exc]
            ELSE emit_values(st1, a, kind, Tail(vals))
        put(bytes) ==
            next(IF kind = "word"
                 THEN emit_slice(logged(st, kind, 0, Head(vals), bytes), a.origin, bytes)
                 ELSE emit_item(logged(st, kind, 0, Head(vals), bytes), a.origin, bytes[1]))
        resolved(v) ==
            IF v.exc # NoExc THEN [st EXCEPT !.exc = v.exc]
            ELSE put(IF kind = "word" THEN <<Mask8(v.v), Mask8(v.v \div 256)>>
                     ELSE <<Mask8(v.v)>>)
    IN  IF vals = <<>> THEN st ELSE resolved(resolve_value(a.labels, Head(vals)))

\* the body of second_pass's loop for one stored line
second_pass_line(st, a, parsed) ==
    LET operands(opcode_put, ops) ==
            IF opcode_put.exc # NoExc THEN [st EXCEPT !.exc = opcode_put.exc]
            ELSE emit_slice(opcode_put, a.origin, ops)
        encoded(at, value, enc) ==
            IF enc.exc # NoExc THEN [st EXCEPT !.exc = enc.exc]
            ELSE operands(emit_item(logged(st, "instr", at, value,
                                           <<enc.v[1]>> \o enc.v[2]),
                                    a.origin, enc.v[1]),
                          enc.v[2])
        instr(op_) ==
            encoded(op_[1], op_[2],
                    encode_instr(a.labels, parsed[2], op_[1], op_[2], st.pc))
        terminated(string_put) ==
            IF parsed[3] THEN emit_item(string_put, a.origin, 0) ELSE string_put
        encoded_string(bytes) ==
            terminated(emit_slice(logged(st, "string", 0, parsed[2],
                                         IF parsed[3] THEN bytes \o <<0>> ELSE bytes),
                                  a.origin, bytes))
        string(bytestr) ==
            encoded_string([i \in 1 .. Len(bytestr) |-> ord(Chr(bytestr, i)).v])
    IN  CASE parsed[1] = "label" -> st
          [] parsed[1] = "org" -> [st EXCEPT !.pc = parsed[2]]
          [] parsed[1] \in {"word", "byte"} -> emit_values(st, a, parsed[1], parsed[2])
          [] parsed[1] = "res" -> [st EXCEPT !.pc = @ + parsed[2]]
          [] parsed[1] = "instr" -> instr(parse_operand(parsed[3], parsed[2]))
          [] parsed[1] = "string" ->
                string(IF startswith(parsed[2], "\"") /\ endswith(parsed[2], "\"")
                       THEN SubSeq(parsed[2], 2, Len(parsed[2]) - 1)
                       ELSE parsed[2])

RECURSIVE second_pass_from(_, _, _)
second_pass_from(st, a, i) ==
    IF i > Len(a.lines) \/ st.exc # NoExc THEN st
    ELSE second_pass_from(second_pass_line(st, a, a.lines[i][2]), a, i + 1)

\* the assembler after the pass, the image returned (v) and the exception
second_pass(a) ==
    LET returned(st, end) ==
            [a |-> [a EXCEPT !.output = st.output, !.pc = st.pc,
                             !.emitted = st.emitted],
             v |-> IF st.exc = NoExc THEN getslice(st.output, end) ELSE <<>>,
             exc |-> st.exc]
        walked(st) ==
            returned(st, IF st.pc - a.origin > st.max_written THEN st.pc - a.origin
                         ELSE st.max_written)
    IN  walked(second_pass_from([pc |-> a.origin, max_written |-> 0,
                                 output |-> bytearray(65536 - a.origin),
                                 exc |-> NoExc, emitted |-> <<>>], a, 1))

\* assemble(text) called on the assembler a
assemble(a, text) ==
    LET passed(p) ==
            IF p.exc # NoExc THEN [a |-> p.a, v |-> <<>>, exc |-> p.exc]
            ELSE second_pass(p.a)
    IN  passed(first_pass(a, splitlines(text)))

---------------------------------------------------------------------------
(* CPU.step, CPU.reset (cpu.py 20-31, 775-785)                             *)

\* the state and the exception step() ends with
step(s) ==
    LET opcode == cpu_read(s, s.PC)
        s1 == [s EXCEPT !.PC = @ + 1]
    IN  IF opcode \in DOMAIN opcode_table
        THEN [s |-> handler(s1, opcode), exc |-> NoExc]
        ELSE [s |-> s1, exc |-> KeyError(opcode)]

\* a reset that also clears the memory
reset_clearing_memory(s) ==
    [s EXCEPT !.A = 0, !.X = 0, !.Y = 0, !.SP = 253,
              !.PC = read_word(s, 65532), !.P = 36, !.data = [a \in {} |-> 0]]

reset(s) ==
    [s EXCEPT !.A = 0, !.X = 0, !.Y = 0, !.SP = 253,
              !.PC = read_word(s, 65532), !.P = 36]

---------------------------------------------------------------------------
(* The machine: the variables as the record the handlers work on.          *)

M == [A |-> A, X |-> X, Y |-> Y, SP |-> SP, PC |-> PC, P |-> P,
      data |-> data, rh |-> read_handlers, wh |-> write_handlers,
      out |-> out, bus |-> <<>>]

Commit(s) ==
    /\ A' = s.A /\ X' = s.X /\ Y' = s.Y /\ SP' = s.SP /\ PC' = s.PC /\ P' = s.P
    /\ data' = s.data /\ out' = s.out /\ bus' = s.bus

\* no run(n) call is in progress
Idle == op \notin {"run", "run_step"}

\* the JSRs not yet returned from: a JSR opens a call, an RTS closes the last
CallsAfter(opcode) ==
    IF opcode = 32 THEN Append(calls, [at |-> PC, sp |-> SP])
    ELSE IF opcode = 96 /\ calls # <<>> THEN SubSeq(calls, 1, Len(calls) - 1)
    ELSE calls

\* one call of cpu.step()
StepBody ==
    /\ LET r == step(M)
       IN  Commit(r.s) /\ exc' = r.exc
    /\ ir' = <<cpu_read(M, PC), PC>>
    /\ calls' = CallsAfter(cpu_read(M, PC))
    /\ steps' = steps + 1
    /\ UNCHANGED <<asm, screen, read_handlers, write_handlers, args, ret>>

Step ==
    /\ Idle
    /\ steps < MaxSteps
    /\ StepBody
    /\ op' = "step"
    /\ UNCHANGED <<run_n, run_i, run_x, run_io>>

\* one call of cpu.reset()
Reset ==
    /\ Idle
    /\ steps < MaxSteps
    /\ Commit(reset(M))
    /\ exc' = NoExc
    /\ op' = "reset"
    /\ ir' = <<>>
    /\ calls' = <<>>
    /\ steps' = steps + 1
    /\ UNCHANGED <<asm, screen, read_handlers, write_handlers, run_n, run_i, run_x, run_io, args, ret>>

\* the bytes a device may deliver
InputBytes == {0, 96}

\* the device behind a read handler changes the value it will return (stdin
\* at $D010 yields another character)
DeviceInput ==
    /\ \E v \in InputBytes :
          /\ \E a \in DOMAIN read_handlers : read_handlers[a] # v
          /\ read_handlers' = [a \in DOMAIN read_handlers |-> v]
    /\ UNCHANGED <<asm, screen, A, X, Y, SP, PC, P, data, write_handlers, out, bus, exc, op,
                   ir, calls, steps, run_n, run_i, run_x, run_io, args, ret>>

---------------------------------------------------------------------------
(* The display (core/components/screen.py).                                *)

SCREEN_RAM_START == 1024

\* Screen(mem): running is set, no thread has been started.  thread is where
\* the display thread stands in run(); quit_posted says that a QUIT event
\* waits in the pygame event queue; closed, frame and joined record that the
\* window was closed, what draw() last showed and that join() returned.
Screen ==
    [running |-> TRUE, thread |-> "none", quit_posted |-> FALSE, closed |-> FALSE,
     frame |-> <<>>, joined |-> FALSE]

\* palette[i]: the 3-3-2 colour of a pixel value
palette(i) ==
    <<(((i \div 32) % 8) * 255) \div 7, (((i \div 4) % 8) * 255) \div 7,
      ((i % 4) * 255) \div 3>>

\* what draw() shows: the colours of the pixels of screen RAM that are not
\* 0, read from memory.data itself (no read handler is called)
draw(d) ==
    [a \in {x \in DOMAIN d : SCREEN_RAM_START <= x /\ x < SCREEN_RAM_START + 128 * 128} |->
        palette(d[a])]

\* for event in pygame.event.get(): if event.type == pygame.QUIT: the queue
\* is emptied and running is cleared when a QUIT was in it
get_events(scr) ==
    [scr EXCEPT !.running = IF scr.quit_posted THEN FALSE ELSE @,
                !.quit_posted = FALSE]

\* screen.start()
start(scr) == [scr EXCEPT !.thread = "test"]

---------------------------------------------------------------------------
(* Initial states: Memory(), load_rom, the loader's two handlers           *)
(* (loader.py 46-57), CPU(mem), then registers set by the caller as the    *)
(* loader sets cpu.PC.                                                     *)

EmptyData == [a \in {} |-> 0]

\* subroutines, a BRK handler and a zero-page pointer for the programs to use:
\* $0300 RTS; $0310 PHA PLA RTS; $0320 JSR $0300, RTS; $0330 RTI; $10 -> $0300
Library ==
    load_rom(load_rom(load_rom(load_rom(load_rom(EmptyData,
        <<96>>, 768), <<72, 104, 96>>, 784), <<32, 0, 3, 96>>, 800), <<64>>, 816),
        <<0, 3>>, 16)

\* the reset vector points at the program, the BRK vector at the RTI
Vectors(d, pc0) ==
    load_rom(d, <<Mask8(pc0), pc0 \div 256, 48, 3>>, 65532)

InitMachine(d, pc0, a0, x0, y0, sp0, p0, inputs) ==
    /\ data = d
    /\ read_handlers = [a \in {53264} |-> 0]
    /\ write_handlers = {53280}
    /\ A = a0 /\ X = x0 /\ Y = y0 /\ SP = sp0 /\ PC = pc0 /\ P = p0
    /\ out = <<>> /\ bus = <<>> /\ exc = NoExc /\ op = "init" /\ ir = <<>>
    /\ calls = <<>> /\ steps = 0
    /\ run_n = 0 /\ run_i = 0 /\ run_x = 0 /\ run_io = FALSE
    /\ args = inputs /\ ret = <<>>
    /\ asm = Assembler(40960) /\ screen = Screen

\* where programs start: RAM, the ROM origin, and the top of the address
\* space (the third byte of that image is loaded at $0000)
StartPCs == {512, 40960, 65534}

\* operand bytes (lo, hi): the library routines and the two I/O ports
Operands == {<<0, 3>>, <<16, 3>>, <<32, 208>>}

StackPointers == {0, 1, 2, 253, 255}

\* P always has U set and B clear (reset, plp and rti keep it so)
Statuses == {36, 235}

Init ==
    \E pc0 \in StartPCs, b \in Byte, o \in Operands,
       sp0 \in StackPointers, p0 \in Statuses :
        InitMachine(load_rom(load_rom(Vectors(Library, pc0), <<b, o[1]>>, pc0),
                             <<o[2]>>, Mask16(pc0 + 2)),
                    pc0, 128, 1, 2, sp0, p0, <<>>)

Next == Step \/ Reset

Spec == Init /\ [][Next]_vars

---------------------------------------------------------------------------
(* CPU.run (cpu.py 788-791): for _ in range(n): the check of the byte at   *)
(* PC and the call of step() are two reads of the fabric, so the loop is   *)
(* one action for the check and one for the step.                          *)

MaxRun == 3

\* a loop that steps whatever the byte at PC is
run_guard_always(b) == TRUE

\* if self.read(self.PC) != 0x00
run_guard(b) == b # 0

Run ==
    /\ op = "init"
    /\ \E n \in 0 .. MaxRun :
          /\ run_n' = n
          /\ op' = IF n = 0 THEN "run_done" ELSE "run"
    /\ run_i' = 0 /\ run_x' = 0 /\ run_io' = FALSE
    /\ UNCHANGED <<asm, screen, A, X, Y, SP, PC, P, data, read_handlers, write_handlers, out,
                   bus, exc, ir, calls, steps, args, ret>>

RunCheck ==
    /\ op = "run"
    /\ IF run_guard(cpu_read(M, PC))
       THEN op' = "run_step" /\ run_i' = run_i
       ELSE /\ run_i' = run_i + 1
            /\ op' = IF run_i + 1 = run_n THEN "run_done" ELSE "run"
    /\ run_io' = (run_io \/ Mask16(PC) \in DOMAIN read_handlers)
    /\ UNCHANGED <<asm, screen, A, X, Y, SP, PC, P, data, read_handlers, write_handlers, out,
                   bus, exc, ir, calls, steps, run_n, run_x, args, ret>>

RunStep ==
    /\ op = "run_step"
    /\ StepBody
    /\ run_x' = run_x + 1
    /\ IF step(M).exc # NoExc
       THEN op' = "run_raised" /\ run_i' = run_i
       ELSE /\ run_i' = run_i + 1
            /\ op' = IF run_i + 1 = run_n THEN "run_done" ELSE "run"
    /\ UNCHANGED <<run_n, run_io>>

\* programs for run(n): empty, straight-line code that ends at a $00 byte,
\* an unmapped opcode, jumps (to itself, to the input port) and a call
RunPrograms ==
    { <<>>, <<234>>, <<234, 234>>, <<232, 232, 232, 232>>, <<169, 0, 234>>,
      <<2>>, <<234, 2, 234>>, <<76, 0, 2>>, <<76, 16, 208>>, <<32, 0, 3>> }

InitRun ==
    \E pc0 \in {512, 40960}, prog \in RunPrograms :
        InitMachine(load_rom(Vectors(Library, pc0), prog, pc0),
                    pc0, 0, 0, 0, 253, 36, <<>>)

NextRun == Run \/ RunCheck \/ RunStep \/ DeviceInput

SpecRun == InitRun /\ [][NextRun]_vars

---------------------------------------------------------------------------
(* CPU.push and CPU.pull called directly (cpu.py 63-71).                   *)

\* the largest value pushed: jsr and brk pass values above $FF (PC >> 8)
MaxValue == 300

Push ==
    /\ op = "init"
    /\ \E v \in 0 .. MaxValue :
          /\ Commit(push(M, v))
          /\ args' = <<v, SP>>
    /\ op' = "push"
    /\ UNCHANGED <<asm, screen, read_handlers, write_handlers, exc, ir, calls, steps,
                   run_n, run_i, run_x, run_io, ret>>

Pull ==
    /\ op = "push"
    /\ LET r == pull(M)
       IN  Commit(r.s) /\ ret' = <<r.v>>
    /\ op' = "pull"
    /\ UNCHANGED <<asm, screen, read_handlers, write_handlers, exc, ir, calls, steps,
                   run_n, run_i, run_x, run_io, args>>

InitStack ==
    \E sp0 \in Byte :
        InitMachine(Vectors(Library, 40960), 40960, 0, 0, 0, sp0, 36, <<>>)

NextStack == Push \/ Pull

SpecStack == InitStack /\ [][NextStack]_vars

---------------------------------------------------------------------------
(* ADC and SBC on every accumulator, operand and carry: the program        *)
(* CLC|SEC ; ADC #m ; SEC|CLC ; SBC #m at $A000, the second carry the      *)
(* opposite of the first.  args keeps the inputs (a0, m, c).               *)

AluProgram(m, c) ==
    <<IF c = 1 THEN 56 ELSE 24, 105, m, IF c = 1 THEN 24 ELSE 56, 233, m>>

InitALU ==
    \E a0 \in Byte, m \in Byte, c \in {0, 1}, d \in {0, 1} :
        InitMachine(load_rom(Vectors(EmptyData, 40960), AluProgram(m, c),
                             40960),
                    40960, a0, 0, 0, 253, 36 + 8 * d, <<a0, m, c>>)

NextALU == Step

SpecALU == InitALU /\ [][NextALU]_vars

---------------------------------------------------------------------------
(* One instruction whose operand aims at a ROM window, directly or through *)
(* a zero-page pointer, stepped and reset as in Spec.                      *)

\* operand bytes (lo, hi): $A000, $E012, $FFFC, $BFFF as absolute addresses;
\* $00, $12, $FC, $FF as zero-page addresses
RomOperands == {<<0, 160>>, <<18, 224>>, <<252, 255>>, <<255, 191>>}

\* zero-page pointers into the ROM windows: ($00) = $FFFE, ($01) = $BFFF,
\* ($12) = $BFFD, ($13) = $E0BF
RomLibrary ==
    load_rom(load_rom(Library, <<253, 191, 224>>, 18), <<254, 255, 191>>, 0)

InitRom ==
    \E pc0 \in {512, 40960}, b \in Byte, o \in RomOperands, sp0 \in {0, 253} :
        InitMachine(load_rom(Vectors(RomLibrary, pc0), <<b, o[1], o[2]>>, pc0),
                    pc0, 128, 1, 2, sp0, 36, <<>>)

SpecRom == InitRom /\ [][Next]_vars

---------------------------------------------------------------------------
(* The memory fabric called directly (mem.py 27-59): read, write,          *)
(* load_rom and the two registrations, in any order.  args keeps the       *)
(* arguments of the last call, ret what read returned.                     *)

MaxMemOps == 3

\* RAM, the edges of the two ROM windows and of the I/O window, the output
\* port, and two integers outside 0 .. $FFFF ($10200 and $A000 - $10000)
MemAddrs ==
    {512, 40959, 40960, 49151, 49152, 53280, 57343, 57344, 65535, 66048, -24576}

HandlerAddrs == {512, 40960, 53280, 57343, 66048}

MemValues == {0, 65, 321}

RomImages == {<<7>>, <<7, 8>>}

RomBases == {512, 40960, 65535, 65536, -1}

\* what load_rom(code, base) raises
load_rom_exc(code, base) ==
    IF \E i \in 0 .. Len(code) - 1 : ~InRange(base + i) THEN IndexError ELSE NoExc

MemWrite ==
    /\ steps < MaxMemOps
    /\ \E a \in MemAddrs, v \in MemValues :
          /\ LET s == mem_write(M, a, v)
             IN  data' = s.data /\ out' = s.out
          /\ args' = <<a, v>>
    /\ op' = "mem_write" /\ ret' = <<>> /\ exc' = NoExc /\ steps' = steps + 1
    /\ UNCHANGED <<asm, screen, A, X, Y, SP, PC, P, read_handlers, write_handlers, bus, ir,
                   calls, run_n, run_i, run_x, run_io>>

MemRead ==
    /\ steps < MaxMemOps
    /\ \E a \in MemAddrs :
          /\ ret' = <<mem_read(M, a)>>
          /\ args' = <<a>>
    /\ op' = "mem_read" /\ exc' = NoExc /\ steps' = steps + 1
    /\ UNCHANGED <<asm, screen, A, X, Y, SP, PC, P, data, read_handlers, write_handlers, out,
                   bus, ir, calls, run_n, run_i, run_x, run_io>>

\* self.read_handlers[addr & 0xFFFF] = handler, a device that returns v
RegisterRead ==
    /\ steps < MaxMemOps
    /\ \E a \in HandlerAddrs, v \in InputBytes :
          /\ read_handlers' =
                [x \in DOMAIN read_handlers \cup {Mask16(a)} |->
                    IF x = Mask16(a) THEN v ELSE read_handlers[x]]
          /\ args' = <<a, v>>
    /\ op' = "register_read" /\ ret' = <<>> /\ exc' = NoExc /\ steps' = steps + 1
    /\ UNCHANGED <<asm, screen, A, X, Y, SP, PC, P, data, write_handlers, out, bus, ir,
                   calls, run_n, run_i, run_x, run_io>>

\* self.write_handlers[addr & 0xFFFF] = handler
RegisterWrite ==
    /\ steps < MaxMemOps
    /\ \E a \in HandlerAddrs :
          /\ write_handlers' = write_handlers \cup {Mask16(a)}
          /\ args' = <<a>>
    /\ op' = "register_write" /\ ret' = <<>> /\ exc' = NoExc /\ steps' = steps + 1
    /\ UNCHANGED <<asm, screen, A, X, Y, SP, PC, P, data, read_handlers, out, bus, ir,
                   calls, run_n, run_i, run_x, run_io>>

LoadRom ==
    /\ steps < MaxMemOps
    /\ \E code \in RomImages, base \in RomBases :
          /\ data' = load_rom(data, code, base)
          /\ exc' = load_rom_exc(code, base)
          /\ args' = <<base, Len(code)>>
    /\ op' = "load_rom" /\ ret' = <<>> /\ steps' = steps + 1
    /\ UNCHANGED <<asm, screen, A, X, Y, SP, PC, P, read_handlers, write_handlers, out, bus,
                   ir, calls, run_n, run_i, run_x, run_io>>

\* Memory(): all bytes zero and no handler
InitMem ==
    /\ data = EmptyData
    /\ read_handlers = [a \in {} |-> 0]
    /\ write_handlers = {}
    /\ A = 0 /\ X = 0 /\ Y = 0 /\ SP = 253 /\ PC = 0 /\ P = 36
    /\ out = <<>> /\ bus = <<>> /\ exc = NoExc /\ op = "init" /\ ir = <<>>
    /\ calls = <<>> /\ steps = 0
    /\ run_n = 0 /\ run_i = 0 /\ run_x = 0 /\ run_io = FALSE
    /\ args = <<>> /\ ret = <<>>
    /\ asm = Assembler(40960) /\ screen = Screen

NextMem == MemWrite \/ MemRead \/ RegisterRead \/ RegisterWrite \/ LoadRom

SpecMem == InitMem /\ [][NextMem]_vars

---------------------------------------------------------------------------
(* Whole programs: the image is loaded at the origin as the loader does    *)
(* (loader.py 46-57), and then driven by reset() and step() calls, by      *)
(* run(n), or by the loader's step loop (loader.py 64-72).                 *)

MaxProgSteps == 20

ORIGIN == 40960

\* the assembled images of
\*  1  LDA #$42 ; BRK
\*  2  LDX #$00 ; loop: INX ; CPX #$05 ; BNE loop ; BRK
\*  3  SEC ; LDA #$50 ; SBC #$F0 ; BRK
\*  4  CLC ; LDA #$7F ; ADC #$01 ; BRK
\*  5  LDA #$48 ; STA $D020 ; LDX #$C9 ; STX $D020 ; LDY #$00 ; STY $D020 ;
\*     INC $D020 ; BRK
ProgPrograms ==
    << <<169, 66, 0>>,
       <<162, 0, 232, 224, 5, 208, encode_rel(ORIGIN + 2, ORIGIN + 5), 0>>,
       <<56, 169, 80, 233, 240, 0>>,
       <<24, 169, 127, 105, 1, 0>>,
       <<169, 72, 141, 32, 208, 162, 201, 142, 32, 208, 160, 0, 140, 32, 208,
         238, 32, 208, 0>> >>

\* the last instruction executed was a BRK, or step() raised
Halted == exc # NoExc \/ (ir # <<>> /\ ir[1] = 0)

ProgReset == op = "init" /\ Reset

ProgStep ==
    /\ op \in {"init", "reset", "step"}
    /\ steps < MaxProgSteps
    /\ ~Halted
    /\ StepBody
    /\ op' = "step"
    /\ UNCHANGED <<run_n, run_i, run_x, run_io>>

\* a check that never sees the $00 byte
LoaderCheck_any_byte ==
    /\ op \in {"init", "loader"}
    /\ steps < MaxProgSteps
    /\ op' = "loader_step"
    /\ UNCHANGED <<asm, screen, A, X, Y, SP, PC, P, data, read_handlers, write_handlers, out,
                   bus, exc, ir, calls, steps, run_n, run_i, run_x, run_io,
                   args, ret>>

\* if cpu.read(cpu.PC) == 0x00: cpu.step(); break  /  cpu.step()
LoaderCheck ==
    /\ op \in {"init", "loader"}
    /\ steps < MaxProgSteps
    /\ op' = IF cpu_read(M, PC) = 0 THEN "loader_brk" ELSE "loader_step"
    /\ UNCHANGED <<asm, screen, A, X, Y, SP, PC, P, data, read_handlers, write_handlers, out,
                   bus, exc, ir, calls, steps, run_n, run_i, run_x, run_io,
                   args, ret>>

LoaderStep ==
    /\ op \in {"loader_brk", "loader_step"}
    /\ StepBody
    /\ op' = IF step(M).exc # NoExc THEN "loader_raised"
             ELSE IF op = "loader_brk" THEN "loader_done" ELSE "loader"
    /\ UNCHANGED <<run_n, run_i, run_x, run_io>>

\* Memory(), load_rom(code, origin), the two handlers, CPU(mem) (which
\* resets), cpu.PC = origin; with or without vectors and library in memory.
\* args names the program.
InitProg ==
    \E k \in 1 .. Len(ProgPrograms), d \in {EmptyData, Vectors(Library, ORIGIN)} :
        InitMachine(load_rom(d, ProgPrograms[k], ORIGIN),
                    ORIGIN, 0, 0, 0, 253, 36, <<k>>)

NextProg ==
    ProgReset \/ ProgStep \/ Run \/ RunCheck \/ RunStep \/ LoaderCheck \/ LoaderStep

SpecProg == InitProg /\ [][NextProg]_vars

\* whoever steps the program with step() keeps stepping it until it ends
SpecProgFair == SpecProg /\ WF_vars(ProgStep)

---------------------------------------------------------------------------
(* One branch instruction at pc whose operand is the displacement the      *)
(* assembler emits for target (asm.py 434-442), then stepped.  args keeps  *)
(* (pc, target).                                                           *)

\* BPL BMI BVC BVS BCC BCS BNE BEQ
BranchOpcodes == {16, 48, 80, 112, 144, 176, 208, 240}

\* the branch stands at the bottom of memory, in RAM, or at the last address
\* that leaves room for its operand
InitBranch ==
    \E pc \in {0, 512, 65534}, disp \in (0 - 128) .. 127, b \in BranchOpcodes,
       p0 \in Statuses :
        /\ pc + 2 + disp \in 0 .. 65535
        /\ InitMachine(load_rom(EmptyData,
                                 <<b, encode_rel(pc + 2 + disp, pc)>>, pc),
                        pc, 0, 0, 0, 253, p0, <<pc, pc + 2 + disp>>)

NextBranch == Step

SpecBranch == InitBranch /\ [][NextBranch]_vars

---------------------------------------------------------------------------
(* assemble(text) called on a new Assembler, as assembler.py, dump.py and  *)
(* loader.py do.  The source is made of lines of AsmLines, with or without *)
(* a leading .org line that moves it by delta.  args keeps the text, the   *)
(* source without the .org line and delta (-1 without .org line); ret is   *)
(* the image returned.                                                     *)

MaxAsmLines == 2

MaxDelta == 2

AsmLines ==
    << "label:", "loop: NOP", "label: LDA #$10", " JMP label", " BNE loop",
       ".word $1234, label", ".byte loop+1, 'A'", " LDA label,X", " LDAX #1",
       ".fill 3", " JMP (label) ; indirect", " BEQ done", " STA loop-1",
       " NOP loop+1,X" >>

RECURSIVE join(_)
\* the lines of a text, each ended by a newline
join(lines) ==
    IF lines = <<>> THEN "" ELSE Head(lines) \o "\n" \o join(Tail(lines))

\* the texts of at most n lines
Texts(n) ==
    UNION { {join([i \in 1 .. k |-> AsmLines[f[i]]]) : f \in [1 .. k -> DOMAIN AsmLines]} :
            k \in 0 .. n }

\* the text moved by delta
Relocated(text, delta) ==
    IF delta < 0 THEN text ELSE ".org " \o ToString(ORIGIN + delta) \o "\n" \o text

\* one call of assemble(text) on the assembler
AssembleBody(text) ==
    /\ LET returned(r) == asm' = r.a /\ exc' = r.exc /\ ret' = <<r.v>>
       IN  returned(assemble(asm, text))
    /\ op' = "assemble"
    /\ steps' = steps + 1
    /\ UNCHANGED <<screen, A, X, Y, SP, PC, P, data, read_handlers, write_handlers,
                   out, bus, ir, calls, run_n, run_i, run_x, run_io>>

\* the delta that moves the origin to the last address, $FFFF
FarDelta == 65535 - ORIGIN

\* no .org line (-1), the small deltas and the far one
Deltas == ((0 - 1) .. MaxDelta) \cup {FarDelta}

Assemble ==
    /\ steps = 0
    /\ \E text \in Texts(MaxAsmLines), delta \in Deltas :
          /\ AssembleBody(Relocated(text, delta))
          /\ args' = <<Relocated(text, delta), text, delta>>

RECURSIVE label_trace(_, _, _)
\* the label table after each line of the first pass (asm.py 167-237), from
\* line i on
label_trace(r, lines, i) ==
    LET next(r1) == <<r1.a.labels>> \o label_trace(r1, lines, i + 1)
    IN  IF i > Len(lines) \/ r.exc # NoExc THEN <<>>
        ELSE next(first_pass_line(r.a, lines[i]))

\* the label tables of the first pass of assemble(text) on the assembler a
first_pass_labels(a, text) ==
    label_trace([a |-> [a EXCEPT !.pc = a.origin], exc |-> NoExc], splitlines(text), 1)

InitAsm == InitMem

NextAsm == Assemble

SpecAsm == InitAsm /\ [][NextAsm]_vars

\* the operand strings of a source line: the operand of its instruction, the
\* values of its .word or .byte (asm.py 167-202: the part after a label
\* prefix is what is parsed)
operands(line) ==
    LET of(parsed) ==
            IF parsed.exc # NoExc \/ parsed.v = <<>> THEN {}
            ELSE IF parsed.v[1] = "instr" THEN {parsed.v[3]}
            ELSE IF parsed.v[1] \in {"word", "byte"}
            THEN {parsed.v[2][i] : i \in DOMAIN parsed.v[2]}
            ELSE {}
        coded(code) ==
            of(parse_line(IF find(code, ":") > 0 THEN split1(code, ":")[2] ELSE code))
    IN  coded(strip(split1(line, ";")[1]))

\* the identifiers an operand string names: its maximal runs of letters,
\* digits and _ that are identifiers, other than the digits of a $ number,
\* the character of a literal, an index register after a comma and the
\* accumulator A
identifiers(s) ==
    LET word(i) == /\ i \in 1 .. Len(s)
                   /\ find("0123456789_" \o ascii_lowercase, lower(Chr(s, i))) > 0
    IN  IF upper(strip(s)) = "A" THEN {}
        ELSE {SubSeq(s, r[1], r[2]) :
                r \in {q \in (1 .. Len(s)) \X (1 .. Len(s)) :
                         /\ q[1] <= q[2]
                         /\ \A k \in q[1] .. q[2] : word(k)
                         /\ ~word(q[1] - 1) /\ ~word(q[2] + 1)
                         /\ isidentifier(SubSeq(s, q[1], q[2]))
                         /\ (q[1] > 1 => Chr(s, q[1] - 1) \notin {"$", "'"})
                         /\ ~(/\ q[1] > 1 /\ Chr(s, q[1] - 1) = ","
                              /\ SubSeq(s, q[1], q[2]) \in {"X", "Y"})}}

\* b[i] of a bytes object
byte_at(b, i) == IF i \in DOMAIN b.at THEN b.at[i] ELSE 0

\* b[i:i+n] as a tuple
bytes_at(b, i, n) == [k \in 1 .. n |-> byte_at(b, i + k - 1)]

\* the address in little-endian order
lo_hi(addr) == <<Mask8(addr), Mask8(addr \div 256)>>

\* the 16-bit number of two bytes, low byte first
word16(bs) == bs[1] + 256 * bs[2]

\* what the second pass emitted for '.org ORIGIN + d' followed by a text (e)
\* against what it emitted for the text alone (b), the labels being those of
\* the text alone
relocated_item(e, b, labels, d) ==
    LET refers == identifiers(b.value) \cap DOMAIN labels # {}
    IN  /\ e.pc = b.pc + d
        /\ e.kind = b.kind /\ e.at = b.at /\ e.value = b.value
        /\ Len(e.bytes) = Len(b.bytes)
        /\ b.kind = "instr" => e.bytes[1] = b.bytes[1]
        /\ (b.kind = "instr" /\ b.at = REL) => e.bytes = b.bytes
        /\ ~refers => e.bytes = b.bytes
        /\ (refers /\ b.kind = "word") => word16(e.bytes) = word16(b.bytes) + d
        /\ (refers /\ b.kind = "instr" /\ b.at \in {ABS, ABSX, ABSY, IND}) =>
              word16(Tail(e.bytes)) = word16(Tail(b.bytes)) + d

\* the state after assembling '.org ORIGIN + d' followed by a text against
\* the result (base) of assembling the text alone
relocated_by(base, d) ==
    /\ asm.labels = [l \in DOMAIN base.a.labels |-> base.a.labels[l] + d]
    /\ exc = base.exc
    /\ Len(asm.emitted) = Len(base.a.emitted)
    /\ \A k \in DOMAIN asm.emitted :
          relocated_item(asm.emitted[k], base.a.emitted[k], base.a.labels, d)

\* the address after the last byte of the text assembled at ORIGIN
end_of(text) == first_pass(Assembler(ORIGIN), splitlines(text)).a.pc

---------------------------------------------------------------------------
(* Several assemble calls on one Assembler, each on a text of one line.    *)

MaxAsmCalls == 2

ReuseTexts == {join(<<AsmLines[i]>>) : i \in DOMAIN AsmLines} \cup {""}

AssembleAgain ==
    /\ steps < MaxAsmCalls
    /\ \E text \in ReuseTexts :
          /\ AssembleBody(text)
          /\ args' = <<text, text, 0 - 1>>

NextAsmReuse == AssembleAgain

SpecAsmReuse == InitAsm /\ [][NextAsmReuse]_vars

---------------------------------------------------------------------------
(* The status register against every stack content: the programs that     *)
(* pull P (PLP, RTI), push it (PHP, BRK) and show the pushed byte (PHP     *)
(* PLA), stepped from $0200 with the byte v on top of the stack, above a   *)
(* return address of $0200.                                                *)

\* PLP; RTI; PHP PLP; BRK (its handler at $0330 is an RTI); PHP PLA
StatusPrograms == << <<40>>, <<64>>, <<8, 40>>, <<0>>, <<8, 104>> >>

InitStatus ==
    \E k \in DOMAIN StatusPrograms, v \in Byte, sp0 \in StackPointers, p0 \in Statuses :
        InitMachine(load_rom(load_rom(load_rom(load_rom(Vectors(Library, 512),
                        StatusPrograms[k], 512),
                        <<v>>, 256 + Mask8(sp0 + 1)),
                        <<0>>, 256 + Mask8(sp0 + 2)),
                        <<2>>, 256 + Mask8(sp0 + 3)),
                    512, 128, 1, 2, sp0, p0, <<k, v>>)

SpecStatus == InitStatus /\ [][Next]_vars

---------------------------------------------------------------------------
(* Every opcode on registers at both ends of their range: one instruction  *)
(* at $0200 with the operand $FF or $0310, the zero-page byte $FF holding  *)
(* $FF, stepped and reset.                                                 *)

\* A, X, Y
RegisterFiles ==
    {<<0, 0, 0>>, <<255, 255, 255>>, <<255, 0, 1>>, <<127, 255, 0>>, <<128, 1, 255>>}

\* operand bytes (lo, hi): the zero-page byte $FF, the routine at $0310
RegOperands == {<<255, 0>>, <<16, 3>>}

InitRegs ==
    \E b \in Byte, o \in RegOperands, r \in RegisterFiles, sp0 \in {0, 255},
       p0 \in {36, 37, 235} :
        InitMachine(load_rom(load_rom(Vectors(Library, 512), <<b, o[1], o[2]>>, 512),
                             <<255>>, 255),
                    512, r[1], r[2], r[3], sp0, p0, <<>>)

SpecRegs == InitRegs /\ [][Next]_vars

---------------------------------------------------------------------------
(* BRK and its handler: a BRK at a, the BRK vector pointing at a handler   *)
(* at $0040 that leaves the stack balanced and ends with RTI.  args keeps  *)
(* a, the P and the SP before the BRK, and the handler.                    *)

\* RTI; PHA PLA RTI; SEC RTI; CLI RTI
BrkHandlers == << <<64>>, <<72, 104, 64>>, <<56, 64>>, <<88, 64>> >>

\* where the BRK stands: RAM, the ROM origin, the last address
BrkAddrs == {512, 40960, 65535}

\* every P with U set and B clear
BrkStatuses == {p \in Byte : TestBit(p, FlagU) /\ ~TestBit(p, FlagB)}

InitBrk ==
    \E a \in BrkAddrs, k \in DOMAIN BrkHandlers, sp0 \in StackPointers,
       p0 \in BrkStatuses :
        InitMachine(load_rom(load_rom(Vectors(Library, a), <<64, 0>>, 65534),
                             BrkHandlers[k], 64),
                    a, 128, 1, 2, sp0, p0, <<a, p0, sp0, k>>)

SpecBrk == InitBrk /\ [][Next]_vars

---------------------------------------------------------------------------
(* JMP (ptr) at $0200 for pointers at both ends of every page: the byte at *)
(* the start of the pointer's page, the byte after the pointer and the     *)
(* byte at the pointer are loaded with different values.                   *)

\* the first two and the last two addresses of every page
JmpPointers == {Word(h, l) : h \in Byte, l \in {0, 1, 254, 255}}

\* (byte at ptr, byte at ptr + 1, byte at ptr & $FF00)
JmpTargets == {<<52, 18, 86>>, <<0, 3, 160>>}

InitJmp ==
    \E ptr \in JmpPointers, t \in JmpTargets :
        InitMachine(load_rom(load_rom(load_rom(load_rom(Vectors(Library, 512),
                        <<108, Mask8(ptr), ptr \div 256>>, 512),
                        <<t[3]>>, ptr - Mask8(ptr)),
                        <<t[2]>>, Mask16(ptr + 1)),
                        <<t[1]>>, ptr),
                    512, 128, 1, 2, 253, 36, <<ptr>>)

SpecJmp == InitJmp /\ [][Next]_vars

---------------------------------------------------------------------------
(* The operand classifier on its own: parse_operand(operand, mnemonic) for *)
(* operands made of a base and an ending.  args keeps the operand and the  *)
(* mnemonic, ret the addressing type and the value returned.               *)

OperandBases ==
    {"$10", "$0", "$FF", "$1234", "$10 ", "16", "0", "255", "300", "tab", "_t1",
     "A", "tab+1", "", "#1", "#$10", "(tab", "($10", " $10", "1 6"}

OperandEndings == {"", ",X", ",Y", ",x", ",y", ")", ",X)", "),Y", ", X"}

Mnemonics == {"LDA", "LDX", "STA", "BNE"}

ParseOperand ==
    /\ steps = 0
    /\ \E base \in OperandBases, ending \in OperandEndings, mnemonic \in Mnemonics :
          /\ ret' = <<parse_operand(base \o ending, mnemonic)>>
          /\ args' = <<base \o ending, mnemonic>>
    /\ op' = "parse_operand"
    /\ steps' = steps + 1
    /\ UNCHANGED <<asm, screen, A, X, Y, SP, PC, P, data, read_handlers, write_handlers,
                   out, bus, exc, ir, calls, run_n, run_i, run_x, run_io>>

NextOperand == ParseOperand

SpecOperand == InitAsm /\ [][NextOperand]_vars

---------------------------------------------------------------------------
(* One assemble call on a new Assembler for texts made of every kind of    *)
(* line (asm.py 110-160): directives and instructions, alone and behind a  *)
(* label prefix, .org lines that move the pc forward, backward and below   *)
(* the origin, and branches near and far from their target.                *)

MaxKindLines == 2

KindLines ==
    << ".org $A010", "a: .org $A010", ".org $9FFE", ".org $A000",
       ".word 1, end", "w: .word 513", ".byte 1, 2", "b: .byte 7",
       ".res 3", "r: .res 200",
       ".string \"AB\"", "s: .string \"AB\"", ".stringz \"AB\"", "z: .stringz AB",
       " NOP", "end: NOP", "i: LDA #1", " LDA $1234,X", "c: ASL A",
       " BNE end", " BEQ r", " JMP (end)", "y: LDA ($10),Y", " LDA $10" >>

\* the texts of at most n lines
KindTexts(n) ==
    UNION { {join([i \in 1 .. k |-> KindLines[f[i]]]) : f \in [1 .. k -> DOMAIN KindLines]} :
            k \in 0 .. n }

AssembleKinds ==
    /\ steps = 0
    /\ \E text \in KindTexts(MaxKindLines) :
          /\ AssembleBody(text)
          /\ args' = <<text, text, 0 - 1>>

NextAsmKinds == AssembleKinds

SpecAsmKinds == InitAsm /\ [][NextAsmKinds]_vars

RECURSIVE first_pass_pcs(_, _, _)
\* the pc the first pass had when it stored each item of _lines (asm.py
\* 167-237), from line i on: one pc per stored item, an item behind a label
\* prefix having the pc of its label
first_pass_pcs(r, lines, i) ==
    LET next(r1) ==
            [k \in 1 .. (Len(r1.a.lines) - Len(r.a.lines)) |-> r.a.pc]
                \o first_pass_pcs(r1, lines, i + 1)
    IN  IF i > Len(lines) \/ r.exc # NoExc THEN <<>>
        ELSE next(first_pass_line(r.a, lines[i]))

RECURSIVE second_pass_pcs(_, _, _)
\* the pc at which the second pass reaches each stored item (asm.py 268-326),
\* from item i on
second_pass_pcs(st, a, i) ==
    IF i > Len(a.lines) \/ st.exc # NoExc THEN <<>>
    ELSE <<st.pc>> \o second_pass_pcs(second_pass_line(st, a, a.lines[i][2]), a, i + 1)

\* the pcs of both passes of assemble(text) on a new Assembler: p1 and p2,
\* with the stored items
pass_pcs(text) ==
    LET second(p) ==
            [lines |-> p.a.lines,
             p1 |-> first_pass_pcs([a |-> Assembler(ORIGIN), exc |-> NoExc],
                                   splitlines(text), 1),
             p2 |-> IF p.exc # NoExc THEN <<>>
                    ELSE second_pass_pcs([pc |-> p.a.origin, max_written |-> 0,
                                          output |-> bytearray(65536 - p.a.origin),
                                          exc |-> NoExc, emitted |-> <<>>], p.a, 1)]
    IN  second(first_pass(Assembler(ORIGIN), splitlines(text)))

---------------------------------------------------------------------------
(* The loader's main (loader.py 40-83) with the display thread             *)
(* (screen.py 48-55): the program is assembled and loaded, the display     *)
(* thread is started, the step loop runs, then main waits for the window   *)
(* to be closed, stops the display and joins its thread.  op is where the  *)
(* main thread stands, screen.thread where the display thread stands.      *)

\* the source files
\*  1  a program that draws a pixel and changes it
\*  2  a counting loop
\*  3  a loop that never ends
\*  4  a jump to the input port
\*  5  a byte that is no opcode
LoaderTexts ==
    << " LDA #$E0\n STA $0400\n INC $0400\n BRK\n",
       " LDX #$00\nloop: INX\n CPX #$02\n BNE loop\n BRK\n",
       "spin: JMP spin\n",
       " JMP $D010\n",
       ".byte 2\n" >>

\* the bytes of an image as a tuple
image(v) == [i \in 1 .. v.len |-> byte_at(v, i - 1)]

\* asm = Assembler(); code = asm.assemble(program_text); origin = asm.origin;
\* Memory(), load_rom(code, origin), the two handlers, CPU(mem), cpu.PC =
\* origin, Screen(mem) and screen.start()
InitLoader ==
    \E k \in DOMAIN LoaderTexts :
        LET loaded(r) ==
                /\ asm = r.a
                /\ data = load_rom(EmptyData, image(r.v), r.a.origin)
                /\ PC = r.a.origin
        IN  /\ loaded(assemble(Assembler(ORIGIN), LoaderTexts[k]))
            /\ read_handlers = [a \in {53264} |-> 0]
            /\ write_handlers = {53280}
            /\ A = 0 /\ X = 0 /\ Y = 0 /\ SP = 253 /\ P = 36
            /\ out = <<>> /\ bus = <<>> /\ exc = NoExc /\ op = "init" /\ ir = <<>>
            /\ calls = <<>> /\ steps = 0
            /\ run_n = 0 /\ run_i = 0 /\ run_x = 0 /\ run_io = FALSE
            /\ args = <<k>> /\ ret = <<>>
            /\ screen = start(Screen)

\* what the main thread leaves alone after the step loop, and the display
\* thread always
CpuUnchanged ==
    UNCHANGED <<asm, A, X, Y, SP, PC, P, data, read_handlers, write_handlers, out, bus,
                exc, ir, calls, steps, run_n, run_i, run_x, run_io, args, ret>>

\* except KeyboardInterrupt: ... break (loader.py 70-72), taken between the
\* check and the step or between two turns of the loop
Interrupt ==
    /\ op \in {"init", "loader", "loader_brk", "loader_step"}
    /\ op' = "interrupted"
    /\ screen' = screen
    /\ CpuUnchanged

\* a test of the wait loop that goes on to stop() whatever screen.running is
WaitTest_unconditional ==
    /\ op \in {"loader_done", "interrupted", "wait"}
    /\ op' = "stop"
    /\ screen' = screen
    /\ CpuUnchanged

\* while screen.running (loader.py 75)
WaitTest ==
    /\ op \in {"loader_done", "interrupted", "wait"}
    /\ op' = IF screen.running THEN "wait_events" ELSE "stop"
    /\ screen' = screen
    /\ CpuUnchanged

\* the body of the wait loop (loader.py 76-79)
WaitEvents ==
    /\ op = "wait_events"
    /\ screen' = get_events(screen)
    /\ op' = "wait"
    /\ CpuUnchanged

\* screen.stop() up to the join: self.running = False (screen.py 62-64)
Stop ==
    /\ op = "stop"
    /\ screen' = [screen EXCEPT !.running = FALSE]
    /\ op' = "join"
    /\ CpuUnchanged

\* self.thread.join() returns once run() has returned; then pygame.quit()
\* (screen.py 65-66, loader.py 83)
Join ==
    /\ op = "join"
    /\ screen.thread = "finished"
    /\ screen' = [screen EXCEPT !.joined = TRUE]
    /\ op' = "exit"
    /\ CpuUnchanged

\* while self.running (screen.py 50)
DisplayTest ==
    /\ screen.thread = "test"
    /\ screen' = [screen EXCEPT !.thread = IF screen.running THEN "events" ELSE "finished"]
    /\ op' = op
    /\ CpuUnchanged

\* the event loop of run() (screen.py 51-53)
DisplayEvents ==
    /\ screen.thread = "events"
    /\ screen' = [get_events(screen) EXCEPT !.thread = "draw"]
    /\ op' = op
    /\ CpuUnchanged

\* a draw() that clears the first pixel it has shown
DisplayDraw_clearing ==
    /\ screen.thread = "draw"
    /\ screen' = [screen EXCEPT !.frame = draw(data), !.thread = "test"]
    /\ data' = Store(data, SCREEN_RAM_START, 0)
    /\ UNCHANGED <<op, asm, A, X, Y, SP, PC, P, read_handlers, write_handlers, out, bus,
                   exc, ir, calls, steps, run_n, run_i, run_x, run_io, args, ret>>

\* self.draw(); self.clock.tick(120) (screen.py 54-55)
DisplayDraw ==
    /\ screen.thread = "draw"
    /\ screen' = [screen EXCEPT !.frame = draw(data), !.thread = "test"]
    /\ op' = op
    /\ CpuUnchanged

\* the user closes the window: a QUIT event enters the event queue
WindowClose ==
    /\ ~screen.closed
    /\ op # "exit"
    /\ screen' = [screen EXCEPT !.quit_posted = TRUE, !.closed = TRUE]
    /\ op' = op
    /\ CpuUnchanged

\* the main thread after the step loop
WaitNext == WaitTest \/ WaitEvents \/ Stop \/ Join

MainNext == LoaderCheck \/ LoaderStep \/ WaitNext

DisplayNext == DisplayTest \/ DisplayEvents \/ DisplayDraw

NextLoader == MainNext \/ DisplayNext \/ Interrupt \/ WindowClose \/ DeviceInput

SpecLoader == InitLoader /\ [][NextLoader]_vars

\* after the step loop, both threads are scheduled again and again
SpecLoaderFair == SpecLoader /\ WF_vars(WaitNext) /\ WF_vars(DisplayNext)

RECURSIVE after_steps(_, _)
\* the machine after n calls of step() and nothing else
after_steps(m, n) ==
    IF n = 0 THEN m ELSE after_steps([step(m).s EXCEPT !.bus = <<>>], n - 1)

\* the machine the loader starts on source file k
LoaderStart(k) ==
    LET loaded(r) ==
            [A |-> 0, X |-> 0, Y |-> 0, SP |-> 253, PC |-> r.a.origin, P |-> 36,
             data |-> load_rom(EmptyData, image(r.v), r.a.origin),
             rh |-> [a \in {53264} |-> 0], wh |-> {53280}, out |-> <<>>, bus |-> <<>>]
    IN  loaded(assemble(Assembler(ORIGIN), LoaderTexts[k]))

\* the program has an operand that is the input port $D010
reads_port(code) ==
    \E i \in 1 .. Len(code) - 1 : code[i] = 16 /\ code[i + 1] = 208

---------------------------------------------------------------------------
(* What the fabric returns for a read of address a in the current state.   *)

Peek(a) == mem_read(M, a)

\* the opcode the last step fetched has no entry in the dispatch table
Unmapped == op = "step" /\ ir[1] \notin DOMAIN opcode_table

\* C1: a step on an opcode byte that has no entry in the dispatch table ends
\* in an error that carries both the opcode byte and the PC it was fetched at.
C1_UnmappedCarriesOpcodeAndPC ==
    Unmapped => (exc # NoExc /\ exc.args = <<ir[1], ir[2]>>)

\* C2: a step that fails on an unmapped opcode leaves PC at the faulting
\* opcode and A, X, Y, SP, P and memory unchanged.
C2_FaultLeavesStateUnchanged ==
    [][(op' = "step" /\ exc' # NoExc) =>
            (PC' = PC /\ UNCHANGED <<A, X, Y, SP, P, data>>)]_vars

\* C3: after reset() A = X = Y = 0, SP = $FD, P = $24 and PC is the
\* little-endian word the fabric returns for $FFFC/$FFFD.
C3_ResetState ==
    op = "reset" =>
        /\ A = 0 /\ X = 0 /\ Y = 0 /\ SP = 253 /\ P = 36
        /\ PC = Peek(65532) + 256 * Peek(65533)

\* a reset taken after a step that wrote to the output port, with the reset
\* vector $FFFE (low byte $FE, high byte $FF)
C3_Witness == op = "reset" /\ out # <<>> /\ PC = 65534 /\ steps >= 2

\* C5: BRK fetched at a with status p and stack pointer s writes high(a+2)
\* to $0100+s, low(a+2) to $0100+((s-1) mod 256) and p | $30 to
\* $0100+((s-2) mod 256), in this order, leaves SP = (s-3) mod 256, sets I
\* (B stays clear in P) and loads PC from the word at $FFFE/$FFFF.
C5_Brk ==
    [][(op' = "step" /\ ir' = <<0, PC>>) =>
        LET a == PC
            s == SP
            p == P
            hi == ((a + 2) \div 256) % 256
            lo == (a + 2) % 256
        IN  /\ bus' = << <<256 + s, hi>>,
                         <<256 + ((s - 1) % 256), lo>>,
                         <<256 + ((s - 2) % 256), SetBit(SetBit(p, 16), 32)>> >>
            /\ Data(data', 256 + s) = hi
            /\ Data(data', 256 + ((s - 1) % 256)) = lo
            /\ Data(data', 256 + ((s - 2) % 256)) = SetBit(SetBit(p, 16), 32)
            /\ SP' = (s - 3) % 256
            /\ P' = SetBit(p, 4)
            /\ ~TestBit(P', 16)
            /\ PC' = Peek(65534)' + 256 * Peek(65535)'
            /\ exc' = NoExc]_vars

\* a BRK fetched at $FFFE (a + 2 = $10000) with SP = $01, so that the three
\* pushes wrap from $0100 to $01FF and leave SP = $FE
C5_Witness == op = "step" /\ ir = <<0, 65534>> /\ SP = 254 /\ Len(bus) = 3

\* C6: JSR at a pushes the high byte of a+2, then the low byte; RTS pulls
\* low, then high; an RTS taken with the stack balanced (SP as the JSR left
\* it) leaves PC at a+3, the instruction after the JSR, and SP as it was
\* before the JSR.
C6_JsrRts ==
    [][/\ (op' = "step" /\ ir' = <<32, PC>>) =>
            /\ bus' = << <<256 + SP, ((PC + 2) \div 256) % 256>>,
                         <<256 + ((SP - 1) % 256), (PC + 2) % 256>> >>
            /\ SP' = (SP - 2) % 256
       /\ (op' = "step" /\ ir' = <<96, PC>>) =>
            /\ PC' = Word(Peek(256 + ((SP + 2) % 256)), Peek(256 + ((SP + 1) % 256))) + 1
            /\ SP' = (SP + 2) % 256
       /\ (op' = "step" /\ ir' = <<96, PC>> /\ calls # <<>>
             /\ SP = (calls[Len(calls)].sp - 2) % 256) =>
            LET a == calls[Len(calls)].at
            IN  /\ IF a + 3 <= 65535 THEN PC' = a + 3
                   ELSE PC' % 65536 = (a + 3) % 65536
                /\ SP' = calls[Len(calls)].sp]_vars

\* the RTS at $0300 returned to $0203 after the JSR at $0200 was taken with
\* SP = $00: the pushes went to $0100 and $01FF, and SP is $00 again
C6_Witness ==
    op = "step" /\ ir = <<96, 768>> /\ steps = 2 /\ PC = 515 /\ SP = 0

\* PC points at an address the fabric serves from the backing bytes
AtByte == Mask16(PC) \notin DOMAIN read_handlers

InRun == op \in {"run", "run_step"}

\* run() returns in this step
Returns == op = "run" /\ op' = "run_done"

\* C4: run(n) executes at most n instructions and never executes a BRK:
\* while PC points at a byte equal to $00 no step is taken and registers and
\* memory stay unchanged, and a run that returns after fewer than n
\* instructions leaves PC at a byte equal to $00.  (The claim as given, for
\* every address PC may point at.)
C4_RunNeverExecutesBrk ==
    /\ [](run_x <= run_n)
    /\ [][(run_x' = run_x + 1) => ir'[1] # 0]_vars
    /\ [][(InRun /\ Peek(PC) = 0) => UNCHANGED <<A, X, Y, SP, PC, P, data>>]_vars
    /\ [][(Returns /\ run_x' < run_n') => Peek(PC)' = 0]_vars

\* C4 as amended: the same, for a run whose PC points at addresses that have
\* no read handler (at a read-handler address the loop's check and the fetch
\* of step() are two reads, which may return different values).
C4_RunAtBytes ==
    /\ [](run_x <= run_n)
    /\ [][(run_x' = run_x + 1 /\ AtByte) => (Peek(PC) # 0 /\ ir'[1] # 0)]_vars
    /\ [][(InRun /\ AtByte /\ Peek(PC) = 0) =>
              UNCHANGED <<A, X, Y, SP, PC, P, data>>]_vars
    /\ [][(Returns /\ ~run_io' /\ run_x' < run_n') =>
              (AtByte' /\ Peek(PC)' = 0)]_vars

\* run(3) of NOP NOP at $A000 returned after 2 instructions with PC at the
\* $00 byte that follows them
C4_Witness ==
    op = "run_done" /\ run_n = 3 /\ run_x = 2 /\ PC = 40962 /\ Peek(PC) = 0

\* C7: push(v) with SP = s stores v & $FF at $0100 + s; pull() after it
\* returns v & $FF and leaves SP = s; every stack access lies in $0100-$01FF.
C7_PushPull ==
    /\ op = "push" =>
          /\ bus = << <<256 + args[2], args[1] % 256>> >>
          /\ Data(data, 256 + args[2]) = args[1] % 256
    /\ op = "pull" => (ret = <<args[1] % 256>> /\ SP = args[2])
    /\ \A i \in 1 .. Len(bus) : bus[i][1] \in 256 .. 511

\* push($12C) with SP = $00 wrapped SP to $FF, and the pull returned $2C and
\* left SP = $00
C7_Witness == op = "pull" /\ args = <<300, 0>> /\ ret = <<44>> /\ SP = 0

Signed(x) == IF x >= 128 THEN x - 256 ELSE x

CarryIn == IF TestBit(P, FlagC) THEN 1 ELSE 0

\* C8: ADC leaves A = (A + M + c) mod 256, C = 1 iff A + M + c > 255, Z = 1
\* iff the new A is 0, N = bit 7 of the new A, and V = 1 exactly when
\* signed(A) + signed(M) + c lies outside -128 .. 127.
C8_Adc ==
    [][(op' = "step" /\ ir' = <<105, PC>>) =>
        LET m == Peek(PC + 1)
            sum == A + m + CarryIn
            ssum == Signed(A) + Signed(m) + CarryIn
        IN  /\ A' = sum % 256
            /\ TestBit(P', FlagC) = (sum > 255)
            /\ TestBit(P', FlagZ) = (A' = 0)
            /\ TestBit(P', FlagN) = (A' >= 128)
            /\ TestBit(P', FlagV) = (ssum < -128 \/ ssum > 127)
            /\ \A f \in {FlagI, FlagD, FlagB, FlagU} : TestBit(P', f) = TestBit(P, f)]_vars

\* CLC ; ADC #$01 with A = $7F: A = $80, N and V set, C and Z clear
C8_Witness ==
    /\ op = "step" /\ ir = <<105, 40961>> /\ args = <<127, 1, 0>> /\ A = 128
    /\ TestBit(P, FlagN) /\ TestBit(P, FlagV) /\ ~TestBit(P, FlagC) /\ ~TestBit(P, FlagZ)

\* C9: SBC produces the result and flags of ADC applied to M XOR $FF:
\* A = (A - M - (1 - c)) mod 256, C = 1 iff A - M - (1 - c) >= 0.
C9_SbcIsAdcOfInverse ==
    [][(op' = "step" /\ ir' = <<233, PC>>) =>
        LET m == Peek(PC + 1)
            r == adc([M EXCEPT !.PC = PC + 2], BitXor(m, 255))
            diff == A - m - (1 - CarryIn)
        IN  /\ A' = r.A /\ P' = r.P
            /\ A' = diff % 256
            /\ TestBit(P', FlagC) = (diff >= 0)]_vars

\* SEC ; SBC #$B0 with A = $50 (reached from $A0 + $B0): A = $A0, C clear
\* (a borrow), V set
C9_Witness ==
    /\ op = "step" /\ ir = <<233, 40964>> /\ args = <<160, 176, 0>> /\ A = 160
    /\ ~TestBit(P, FlagC) /\ TestBit(P, FlagV)

\* C10: ADC v with C = c followed by SBC v with C = 1 - c leaves A as it was
\* before the ADC, whatever the D flag is.
C10_AdcSbcRoundTrip ==
    (op = "step" /\ Len(args) = 3 /\ ir = <<233, 40964>>) => A = args[1]

\* SEC ; ADC #$64 ; CLC ; SBC #$64 with A = $C8 and D set: the ADC wrapped
\* to $2D and A is $C8 again
C10_Witness ==
    /\ op = "step" /\ ir = <<233, 40964>> /\ args = <<200, 100, 1>> /\ A = 200
    /\ TestBit(P, FlagD)

---------------------------------------------------------------------------
(* The concrete scenarios.                                                 *)

\* program k has executed its BRK, fetched at ORIGIN + at
Ended(k, at) == args = <<k>> /\ ir = <<0, ORIGIN + at>>

\* C11: SEC ; LDA #$50 ; SBC #$F0 ; BRK ends with A = $60, C = 0 and V = 1.
\* (The claim as given.)
C11_SbcScenarioOverflowSet ==
    Ended(3, 5) => (A = 96 /\ ~TestBit(P, FlagC) /\ TestBit(P, FlagV))

\* C11 as amended: SEC ; LDA #$50 ; SBC #$F0 ; BRK ends with A = $60, C = 0
\* and V = 0 ($50 - $F0 is 80 - (-16) = 96, which fits a signed byte).
C11_SbcScenario ==
    Ended(3, 5) => (A = 96 /\ ~TestBit(P, FlagC) /\ ~TestBit(P, FlagV))

\* reset, then four steps, the last one the BRK
C11_Witness == Ended(3, 5) /\ op = "step" /\ steps = 5 /\ A = 96 /\ P = 36

\* program 2 is being stepped with step(): it is at its first instruction
\* after reset(), or step() has executed its first instruction
LoopStarts ==
    /\ args = <<2>> /\ steps = 1
    /\ \/ op = "reset" /\ PC = ORIGIN
       \/ op = "step" /\ ir = <<162, ORIGIN>>

LoopResult == X = 5 /\ TestBit(P, FlagZ) /\ TestBit(P, FlagC)

\* C12: LDX #$00 ; loop: INX ; CPX #$05 ; BNE loop ; BRK, stepped from its
\* first instruction, reaches the BRK after 1 + 3 * 5 instructions, and at
\* the BRK and after the BRK has executed X = $05, Z = 1 and C = 1.
C12_LoopTerminates ==
    /\ LoopStarts ~> (args = <<2>> /\ PC = ORIGIN + 7 /\ LoopResult)
    /\ LoopStarts ~> (Ended(2, 7) /\ LoopResult)
    /\ []((args = <<2>> /\ PC = ORIGIN + 7) =>
             (LoopResult /\ steps \in {16, 17} /\ ir = <<208, ORIGIN + 5>>))
    /\ [](Ended(2, 7) => LoopResult)

\* reset, LDX, five times the loop body, BRK
C12_Witness == Ended(2, 7) /\ op = "step" /\ steps = 18 /\ X = 5 /\ P = 39

\* C13: LDA #$42 ; BRK at $A000, run to its end by run(n) with n >= 2 or by
\* the loader's loop, ends with A = $42, Z = 0, N = 0 and PC beyond $A002.
\* (The claim as given.)
C13_LdaScenarioPastBrk ==
    (args = <<1>> /\ ((op = "run_done" /\ run_n >= 2) \/ op = "loader_done")) =>
        (A = 66 /\ ~TestBit(P, FlagZ) /\ ~TestBit(P, FlagN) /\ PC > ORIGIN + 2)

\* C13 as amended: both ways end with A = $42, Z = 0, N = 0.  run(n) leaves
\* PC = $A002, at the BRK, which it does not execute; the loader's loop
\* executes the BRK, which pushes $A004 and P | $30 and loads PC from the
\* vector at $FFFE/$FFFF.
C13_LdaScenario ==
    /\ (args = <<1>> /\ op = "run_done" /\ run_n >= 2) =>
          /\ A = 66 /\ ~TestBit(P, FlagZ) /\ ~TestBit(P, FlagN)
          /\ PC = ORIGIN + 2 /\ run_x = 1 /\ SP = 253
    /\ (args = <<1>> /\ op = "loader_done") =>
          /\ A = 66 /\ ~TestBit(P, FlagZ) /\ ~TestBit(P, FlagN)
          /\ PC = Peek(65534) + 256 * Peek(65535)
          /\ SP = 250
          /\ Data(data, 509) = 160 /\ Data(data, 508) = 4 /\ Data(data, 507) = 52

\* the loader's loop has run the program with nothing but the image in
\* memory: PC is $0000
C13_Witness ==
    args = <<1>> /\ op = "loader_done" /\ A = 66 /\ PC = 0 /\ steps = 2

---------------------------------------------------------------------------
(* The memory fabric.                                                      *)

InRom(a) ==
    \/ BASIC_ROM_START <= a /\ a < BASIC_ROM_START + ROM_SIZE
    \/ KERNAL_ROM_START <= a /\ a < KERNAL_ROM_START + ROM_SIZE

InIO(a) == IO_START <= a /\ a <= IO_END

NoHandler(a) == a \notin DOMAIN read_handlers /\ a \notin write_handlers

\* what read(a) returns from bytes d under read handlers rh
ReadOf(d, rh, a) == IF a \in DOMAIN rh THEN rh[a] ELSE Data(d, a)

\* write(a, v) is followed by read of the same address
WriteThenRead ==
    op = "mem_write" /\ op' = "mem_read" /\ Mask16(args'[1]) = Mask16(args[1])

\* C14: for every address a outside the I/O window and both ROM windows,
\* write(a, v) followed by read(a) returns v & $FF, whatever registrations,
\* writes and load_rom calls came before.  (The claim as given.)
C14_WriteThenReadAnyHandlers ==
    [][(WriteThenRead /\ ~InRom(Mask16(args[1])) /\ ~InIO(Mask16(args[1]))) =>
          ret' = <<args[2] % 256>>]_vars

\* C14 as amended: the same for every such address at which no handler is
\* registered (a handler may be registered at any address, and then read
\* returns the handler's value and write stores nothing).
C14_WriteThenRead ==
    [][(WriteThenRead /\ ~InRom(Mask16(args[1])) /\ ~InIO(Mask16(args[1]))
          /\ NoHandler(Mask16(args[1]))) =>
          ret' = <<args[2] % 256>>]_vars

\* a write handler was registered elsewhere, then write($10200, $141) and
\* read($10200) returned $41
C14_Witness ==
    /\ op = "mem_read" /\ args = <<66048>> /\ ret = <<65>> /\ steps = 3
    /\ write_handlers = {53280} /\ Data(data, 512) = 65

\* C15: for every a in $A000-$BFFF or $E000-$FFFF, write(a, v) raises
\* nothing and leaves read(a) (and the backing byte) as it was; $9FFF, $C000
\* and $DFFF are not protected: without a handler there the write is read
\* back.
C15_RomWriteIgnored ==
    [][op' = "mem_write" =>
          /\ exc' = NoExc
          /\ InRom(Mask16(args'[1])) =>
                /\ ReadOf(data', read_handlers', Mask16(args'[1]))
                      = ReadOf(data, read_handlers, Mask16(args'[1]))
                /\ data' = data
          /\ (Mask16(args'[1]) \in {40959, 49152, 57343}
                /\ NoHandler(Mask16(args'[1]))) =>
                ReadOf(data', read_handlers', Mask16(args'[1])) = args'[2] % 256]_vars

\* load_rom put $07 at $FFFF and write($FFFF, $41) left it there
C15_Witness ==
    /\ op = "mem_write" /\ args = <<65535, 65>> /\ Data(data, 65535) = 7
    /\ exc = NoExc /\ NoHandler(65535)

\* C17: read, write and load_rom complete without raising for every integer
\* address or base, every address (base + i too) taken modulo 65,536.
C17_NoFabricFault ==
    /\ op \in {"mem_read", "mem_write", "load_rom"} => exc = NoExc
    /\ op = "load_rom" =>
          \A i \in 0 .. args[2] - 1 : Data(data, (args[1] + i) % 65536) = 7 + i

\* C18: write(a, v) at a write-handler address calls the handler once with
\* (a, v & $FF) and changes no backing byte; read(a) at a read-handler
\* address returns the handler's value; without a handler read returns the
\* backing byte and write outside the ROM windows stores v & $FF.
C18_HandlersFirst ==
    [][/\ op' = "mem_write" =>
             LET a == Mask16(args'[1])
                 v == args'[2] % 256
             IN  IF a \in write_handlers
                 THEN out' = Append(out, <<a, v>>) /\ data' = data
                 ELSE /\ out' = out
                      /\ ~InRom(a) =>
                            /\ Data(data', a) = v
                            /\ \A x \in (DOMAIN data \cup DOMAIN data') \ {a} :
                                  Data(data', x) = Data(data, x)
       /\ op' = "mem_read" =>
             LET a == Mask16(args'[1])
             IN  /\ ret' = <<IF a \in DOMAIN read_handlers
                             THEN read_handlers[a] ELSE Data(data, a)>>
                 /\ out' = out /\ data' = data]_vars

\* a write handler registered inside the BASIC window took write($A000, $141)
C18_Witness ==
    /\ op = "mem_write" /\ args = <<40960, 321>> /\ out = << <<40960, 65>> >>
    /\ 40960 \in write_handlers /\ data = EmptyData

\* the backing bytes inside the two ROM windows
RomPart(d) == [a \in {x \in DOMAIN d : InRom(x)} |-> d[a]]

\* C16: with handlers only inside $D000-$DFFF, no CPU step (store,
\* read-modify-write, push) and no reset changes a backing byte in
\* $A000-$BFFF or $E000-$FFFF.
C16_RomInvariant ==
    /\ [](\A a \in DOMAIN read_handlers \cup write_handlers : InIO(a))
    /\ [][RomPart(data') = RomPart(data)]_vars

\* STA $A000, itself at $A000, wrote $80 to $A000 and is still there
C16_Witness ==
    /\ op = "step" /\ ir = <<141, 40960>> /\ bus = << <<40960, 128>> >>
    /\ Data(data, 40960) = 141

\* the values written to the output port $D020 among the bus writes b
PortWrites(b) == SelectSeq(b, LAMBDA e : e[1] = 53280)

Jumps == {76, 108, 32, 96, 64, 0}

\* opcode is a branch whose condition holds in the current state
TakenBranch(opcode) ==
    /\ opcode_table[opcode].h = "branch"
    /\ TestBit(P, opcode_table[opcode].flag) = opcode_table[opcode].want

\* C20: for every opcode in the dispatch table other than the jumps and a
\* taken branch, one step() moves PC by instr_size of the opcode's
\* addressing mode, from every starting PC.
C20_PcAdvance ==
    [][(op' = "step" /\ ir'[1] \in DOMAIN opcode_table /\ ir'[1] \notin Jumps
          /\ ~TakenBranch(ir'[1])) =>
          /\ PC' - PC = instr_size(ModeOf(opcode_table[ir'[1]]))
          /\ PC' - PC \in {1, 2, 3}
          /\ exc' = NoExc]_vars

\* LDA abs fetched at $FFFE leaves PC three further
C20_Witness == op = "step" /\ ir = <<173, 65534>> /\ PC = 65537 /\ steps = 1

---------------------------------------------------------------------------
(* The assembler's branch displacement against the CPU's relative().       *)

\* C21: for a branch at pc and a target with -128 <= target - (pc + 2) <=
\* 127, both inside 0..$FFFF, the displacement byte (target - (pc + 2)) &
\* $FF makes relative(), called after the opcode fetch, return target, and a
\* taken branch leaves PC = target (a branch not taken leaves PC = pc + 2).
C21_BranchRoundTrip ==
    [][(op = "init" /\ op' = "step") =>
          /\ ir' = <<cpu_read(M, args[1]), args[1]>>
          /\ ir'[1] \in BranchOpcodes
          /\ relative([M EXCEPT !.PC = PC + 1]).v = args[2]
          /\ PC' = IF TakenBranch(ir'[1]) THEN args[2] ELSE args[1] + 2
          /\ exc' = NoExc]_vars

\* BNE at $0200 taken backwards over the full range, to $0182
C21_Witness ==
    op = "step" /\ steps = 1 /\ ir = <<208, 512>> /\ args = <<512, 386>> /\ PC = 386

---------------------------------------------------------------------------
(* The assembler: one assemble call on a new Assembler.                    *)

\* C22: during one assemble call a label is bound once: the address an
\* identifier has in the label table after any line of pass 1 is the address
\* it has when the call ends (a later definition of the same identifier
\* changes nothing), and every label operand emitted by pass 2 carries that
\* first address.
C22_LabelBoundOnce ==
    op = "assemble" =>
        LET once(trace) ==
                \A i \in DOMAIN trace : \A l \in DOMAIN trace[i] :
                    /\ asm.labels[l] = trace[i][l]
                    /\ \A k \in DOMAIN asm.emitted :
                          (asm.emitted[k].value = l /\ asm.emitted[k].kind = "word") =>
                              asm.emitted[k].bytes = <<Mask8(trace[i][l]),
                                                       Mask8(trace[i][l] \div 256)>>
        IN  once(first_pass_labels(Assembler(ORIGIN), args[1]))

\* C23: the label table and the image belong to one call: whatever was
\* assembled before on the same Assembler, assemble(t) returns the image (or
\* raises the error) a new Assembler gives for t, and leaves the labels and
\* the stored lines of t alone.
C23_PerCallState ==
    op = "assemble" =>
        LET same(fresh) ==
                /\ ret = <<fresh.v>>
                /\ exc = fresh.exc
                /\ asm.labels = fresh.a.labels
                /\ asm.lines = fresh.a.lines
        IN  same(assemble(Assembler(ORIGIN), args[1]))

\* C24: a source line that is not empty after comment stripping and is
\* neither a label, a known directive nor an instruction makes assemble fail:
\* a call whose text has such a line ends with an error and returns no image.
C24_UnknownLineIsAnError ==
    op = "assemble" =>
        \A i \in DOMAIN splitlines(args[1]) :
            LET unknown(code, parsed) ==
                    /\ code # ""
                    /\ find(code, ":") = 0
                    /\ parsed = Ok(<<>>)
            IN  unknown(strip(split1(splitlines(args[1])[i], ";")[1]),
                        parse_line(splitlines(args[1])[i])) =>
                    (exc # NoExc /\ ret = <<<<>>>>)

\* C25: when an operand of an instruction, of a .word or of a .byte names an
\* identifier that no line of the text binds, assemble ends with an error
\* and returns no image.
C25_UnknownLabelIsAnError ==
    op = "assemble" =>
        \A i \in DOMAIN splitlines(args[1]) :
            \A s \in operands(splitlines(args[1])[i]) :
                \A id \in identifiers(s) :
                    id \notin DOMAIN asm.labels => (exc # NoExc /\ ret = <<<<>>>>)

\* C26: a label is resolved to the address pass 1 bound it to wherever its
\* definition stands, before or after the use: every .word value, absolute
\* operand and branch target that names a label is emitted from the label
\* table, a .word low byte first, and the image holds the emitted bytes at
\* the item's address.  '.word $1234, label' followed by 'label:' at origin
\* o gives 34 12 lo(o+4) hi(o+4).
C26_ForwardReferences ==
    (op = "assemble" /\ exc = NoExc) =>
        /\ \A k \in DOMAIN asm.emitted :
              LET emits(e) ==
                      /\ bytes_at(ret[1], e.pc - asm.origin, Len(e.bytes)) = e.bytes
                      /\ (e.kind = "word" /\ e.value \in DOMAIN asm.labels) =>
                            e.bytes = lo_hi(asm.labels[e.value])
                      /\ (e.kind = "word" /\ e.value = "$1234") => e.bytes = <<52, 18>>
                      /\ (e.kind = "instr" /\ e.at \in {ABS, ABSX, ABSY, IND}
                             /\ e.value \in DOMAIN asm.labels) =>
                            SubSeq(e.bytes, 2, 3) = lo_hi(asm.labels[e.value])
                      /\ (e.kind = "instr" /\ e.at = REL) =>
                            e.bytes[2] = Mask8(asm.labels[e.value] - (e.pc + 2))
              IN  emits(asm.emitted[k])
        /\ args[2] = ".word $1234, label\nlabel:\n" =>
              LET at(o) ==
                      /\ asm.labels = [l \in {"label"} |-> o + 4]
                      /\ ret[1].len = o - asm.origin + 4
                      /\ bytes_at(ret[1], o - asm.origin, 4) = <<52, 18>> \o lo_hi(o + 4)
              IN  at(IF args[3] < 0 THEN ORIGIN ELSE ORIGIN + args[3])

\* '.word $1234, label' then 'label:' at $A000: 34 12 04 A0
C26_Witness ==
    /\ op = "assemble"
    /\ args = <<".word $1234, label\nlabel:\n", ".word $1234, label\nlabel:\n", 0 - 1>>
    /\ ret = <<[len |-> 4, at |-> (0 :> 52 @@ 1 :> 18 @@ 2 :> 4 @@ 3 :> 160)]>>
    /\ exc = NoExc

\* C27 as stated: for every delta d >= 0, assembling '.org origin+d' followed
\* by S binds every label to its address in S plus d, emits every absolute
\* label reference as its value in S plus d and leaves opcodes, sizes and
\* branch displacements as in S.
C27_RelocationAnyDelta ==
    (op = "assemble" /\ args[3] >= 0) =>
        relocated_by(assemble(Assembler(ORIGIN), args[2]), args[3])

\* C27, amended: the same for every delta d >= 0 that keeps the relocated
\* program below $10000 (origin + d + the size of S <= $FFFF).
C27_Relocation ==
    (op = "assemble" /\ args[3] >= 0 /\ end_of(args[2]) + args[3] <= 65535) =>
        relocated_by(assemble(Assembler(ORIGIN), args[2]), args[3])

\* ' JMP label' then 'label:' moved by 2: the label is $A005, the JMP holds it
C27_Witness ==
    /\ op = "assemble"
    /\ args[2] = " JMP label\nlabel:\n" /\ args[3] = 2
    /\ asm.labels = [l \in {"label"} |-> 40965]
    /\ Len(asm.emitted) = 1 /\ asm.emitted[1].bytes = <<76, 5, 160>>
    /\ exc = NoExc

---------------------------------------------------------------------------
(* The loader and the display thread.                                      *)

\* C28: in every interleaving of the display thread with the CPU thread, a
\* step of the display thread changes no memory byte, no handler table and
\* no CPU register; the registers, the memory and the output are those of
\* the same number of step() calls made with no display thread (for the
\* programs that read no input); and the step loop can always take its next
\* turn, whatever the display thread is doing.
C28_DisplayReadsOnly ==
    /\ [][screen'.thread # screen.thread =>
             UNCHANGED <<A, X, Y, SP, PC, P, data, read_handlers, write_handlers, out>>]_vars
    /\ [](~reads_port(image(getslice(asm.output, asm.pc - asm.origin))) =>
             LET same(m) ==
                     /\ <<A, X, Y, SP, PC, P>> = <<m.A, m.X, m.Y, m.SP, m.PC, m.P>>
                     /\ data = m.data /\ out = m.out
             IN  same(after_steps(LoaderStart(args[1]), steps)))
    /\ []((op \in {"init", "loader"} /\ steps < MaxProgSteps) => ENABLED LoaderCheck)
    /\ [](op \in {"loader_brk", "loader_step"} => ENABLED LoaderStep)

\* the display has shown the pixel at $0400 as $E0 and the CPU has since
\* made it $E1
C28_Witness ==
    /\ args = <<1>>
    /\ screen.frame = [a \in {SCREEN_RAM_START} |-> palette(224)]
    /\ Data(data, SCREEN_RAM_START) = 225
    /\ screen.thread = "draw"

---------------------------------------------------------------------------
(* The assembler on every kind of line.                                    *)

\* C31: pass 1 and pass 2 agree on the program counter: the pc at which pass
\* 2 reaches each stored line is the pc pass 1 had at that line, so every
\* label's address is the address where pass 2 stands when it reaches the
\* label (a label the text defines once), for every kind of line, alone and
\* behind a label prefix.
C31_PassesAgree ==
    op = "assemble" =>
        LET agree(t) ==
                \A i \in DOMAIN t.p2 :
                    /\ t.p1[i] = t.p2[i]
                    /\ (/\ t.lines[i][2][1] = "label"
                        /\ \A k \in DOMAIN t.lines : t.lines[k][2] = t.lines[i][2] => k = i) =>
                          asm.labels[t.lines[i][2][2]] = t.p2[i]
        IN  agree(pass_pcs(args[1]))

---------------------------------------------------------------------------
(* The registers in every reachable state.                                 *)

\* C32: in every state reached by steps and resets P is a byte with U (bit
\* 5) set and B (bit 4) clear, whatever byte PLP or RTI pulled; the byte
\* that PHP pushes, and the one BRK pushes after the return address, is P
\* with B and U set.
C32_StatusBits ==
    /\ P \in Byte
    /\ TestBit(P, FlagU)
    /\ ~TestBit(P, FlagB)
    /\ (op = "step" /\ exc = NoExc /\ ir[1] \in {0, 8}) =>
          LET pushed(w) ==
                  /\ TestBit(w[2], FlagB) /\ TestBit(w[2], FlagU)
                  /\ ir[1] = 8 => w[2] = SetBit(P, FlagB)
                  /\ ir[1] = 0 => ClearBit(w[2], FlagI) = SetBit(ClearBit(P, FlagI), FlagB)
          IN  pushed(bus[Len(bus)])

\* PLP has pulled $FF: P is $EF
C32_Witness ==
    /\ op = "step" /\ ir = <<40, 512>>
    /\ args = <<1, 255>>
    /\ P = 239

\* C33: PC is a 16-bit register: in every state reached by steps and resets
\* PC is within 0..65535.
C33_PcSixteenBits ==
    PC \in 0 .. 65535

\* C34: with memory reads returning bytes, A, X, Y and SP are within 0..255
\* in every state reached by steps and resets, and every write of a push
\* (PHA, PHP, JSR, BRK) goes to the stack page $0100-$01FF.
C34_EightBitRegisters ==
    /\ A \in Byte /\ X \in Byte /\ Y \in Byte /\ SP \in Byte
    /\ (op = "step" /\ exc = NoExc /\ ir[1] \in {0, 8, 32, 72}) =>
          /\ bus # <<>>
          /\ \A i \in DOMAIN bus : bus[i][1] \in 256 .. 511

\* INX has wrapped X from $FF to $00 and set Z
C34_Witness ==
    /\ op = "step" /\ ir = <<232, 512>> /\ steps = 1
    /\ X = 0 /\ TestBit(P, FlagZ)

\* C35: BRK followed by RTI is a round trip: after a BRK fetched at a with
\* status p and stack pointer s, a handler that leaves the stack balanced
\* and ends with RTI returns with PC = a + 2 (modulo 65536, the address BRK
\* pushed, nothing added), SP = s and P = p; in between, I is set.
C35_BrkRtiRoundTrip ==
    LET trip(a, p, s, h) ==
            /\ (op = "step" /\ steps = 1) =>
                  (ir = <<0, a>> /\ PC = 64 /\ P = SetBit(p, FlagI) /\ SP = Mask8(s - 3))
            /\ (op = "step" /\ steps = Len(h) + 1 /\ ir = <<64, 63 + Len(h)>>) =>
                  (PC = Mask16(a + 2) /\ SP = s /\ P = p)
    IN  trip(args[1], args[2], args[3], BrkHandlers[args[4]])

\* BRK at $A000 with I clear and SP = 1, then RTI: PC = $A002, SP = 1, I
\* clear again
C35_Witness ==
    /\ op = "step" /\ steps = 2 /\ ir = <<64, 64>>
    /\ args = <<40960, 235, 1, 1>>
    /\ PC = 40962 /\ SP = 1 /\ P = 235

\* C36: JMP (ptr) takes the low byte of the target from ptr and the high
\* byte from ptr & $FF00 when the low byte of ptr is $FF, from ptr + 1
\* otherwise, for pointers in every page ($FFFF takes the high byte from
\* $FF00); the addressing step leaves PC behind the two pointer bytes and
\* the jump then sets PC to the target.
C36_JmpIndirect ==
    (op = "step" /\ ir = <<108, 512>> /\ steps = 1) =>
        LET jumped(ptr) ==
                /\ ptr = args[1]
                /\ PC = Word(IF ptr % 256 = 255 THEN Peek(ptr - 255) ELSE Peek(ptr + 1),
                             Peek(ptr))
                /\ ptr = 65535 => PC = Word(Peek(65280), Peek(65535))
                /\ indirect([M EXCEPT !.PC = 513]) = Ret([M EXCEPT !.PC = 515], PC)
        IN  jumped(Peek(513) + 256 * Peek(514))

\* JMP ($FFFF) with $34 at $FFFF, $12 at $0000 and $56 at $FF00: PC = $5634
C36_Witness ==
    /\ op = "step" /\ ir = <<108, 512>> /\ steps = 1
    /\ args = <<65535>>
    /\ Peek(65535) = 52 /\ Peek(0) = 18 /\ Peek(65280) = 86
    /\ PC = 22068

\* C37: for every text, .org lines moving the pc backward or below the
\* origin included, every byte pass 2 emits for an address a is the byte at
\* offset a - origin of the returned image unless a later item was emitted
\* at a, every other byte of the image is 0, and the length of the image is
\* the larger of final pc - origin and the highest offset written.
C37_ImageLayout ==
    (op = "assemble" /\ exc = NoExc) =>
        LET e == asm.emitted
            covers(k, a) == a \in e[k].pc .. (e[k].pc + Len(e[k].bytes) - 1)
            last(a) == CHOOSE k \in DOMAIN e :
                          covers(k, a) /\ \A j \in DOMAIN e : covers(j, a) => j <= k
            written == UNION {e[k].pc .. (e[k].pc + Len(e[k].bytes) - 1) : k \in DOMAIN e}
            top == IF written = {} THEN 0
                   ELSE (CHOOSE a \in written : \A x \in written : x <= a) + 1 - asm.origin
            laid(img) ==
                /\ \A a \in written :
                      /\ a - asm.origin \in 0 .. (img.len - 1)
                      /\ byte_at(img, a - asm.origin) = e[last(a)].bytes[a - e[last(a)].pc + 1]
                /\ \A i \in DOMAIN img.at : (i + asm.origin) \notin written => img.at[i] = 0
                /\ img.len = IF asm.pc - asm.origin > top THEN asm.pc - asm.origin ELSE top
        IN  laid(ret[1])

---------------------------------------------------------------------------
(* The operand classifier.                                                 *)

\* C38: the operand classifier never returns ZPX, ZPY or LABEL: an operand
\* that ends in ,X or ,Y and whose base is a $ number, a decimal number or
\* an identifier is classified ABSX or ABSY (an instruction of size 3) with
\* the base as its value, also when the base is a zero-page value.
C38_NoZeroPageIndexed ==
    op = "parse_operand" =>
        LET hex(b) == /\ Len(b) >= 2 /\ Head(b) = "$"
                      /\ \A i \in 2 .. Len(b) : find(hexdigits, Chr(b, i)) > 0
            known(b) == hex(b) \/ isdigit(b) \/ isidentifier(b)
            indexed(o, b) ==
                /\ (endswith(o, ",X") /\ known(b)) => ret[1] = <<ABSX, b>>
                /\ (endswith(o, ",Y") /\ known(b)) => ret[1] = <<ABSY, b>>
                /\ ret[1][1] \in {ABSX, ABSY} => instr_size(ret[1][1]) = 3
        IN  /\ ret[1][1] \notin {ZPX, ZPY, LABEL}
            /\ indexed(strip(args[1]), SubSeq(strip(args[1]), 1, Len(strip(args[1])) - 2))

\* 'LDA $10,X', a zero-page base: ABSX with the value $10
C38_Witness ==
    /\ op = "parse_operand"
    /\ args = <<"$10,X", "LDA">>
    /\ ret = <<<<ABSX, "$10">>>>

---------------------------------------------------------------------------
(* Branches whose target is out of reach.                                  *)

\* C39: the assembler makes no range check on branches: for a branch at pc
\* to a bound label, encode_instr raises nothing and emits (target - (pc +
\* 2)) mod 256.  When the target is outside pc + 2 - 128 .. pc + 2 + 127 the
\* CPU's taken branch on that byte lands on an address that differs from the
\* label's address by a multiple of 256 other than 0 (inside the range it
\* lands on the label).
C39_NoBranchRangeCheck ==
    (op = "assemble" /\ exc = NoExc) =>
        LET taken(pc, b) ==
                branch([M EXCEPT !.PC = pc + 1, !.rh = [a \in {} |-> 0],
                                 !.data = load_rom(EmptyData, <<b>>, Mask16(pc + 1))],
                       TRUE).PC
            lands(pc, target, b) ==
                /\ b = (target - (pc + 2)) % 256
                /\ IF target - (pc + 2) \in (0 - 128) .. 127
                   THEN taken(pc, b) = target
                   ELSE /\ taken(pc, b) # target
                        /\ (taken(pc, b) - target) % 256 = 0
        IN  /\ \A k \in DOMAIN asm.emitted :
                  (asm.emitted[k].kind = "instr" /\ asm.emitted[k].at = REL) =>
                      /\ Len(asm.emitted[k].bytes) = 2
                      /\ lands(asm.emitted[k].pc, asm.labels[asm.emitted[k].value],
                               asm.emitted[k].bytes[2])
            /\ \A l \in DOMAIN asm.labels : \A pc \in {0, asm.origin, 65533} :
                  LET encoded(enc) ==
                          /\ enc.exc = NoExc
                          /\ enc.v[1] = 208 /\ Len(enc.v[2]) = 1
                          /\ lands(pc, asm.labels[l], enc.v[2][1])
                  IN  encoded(encode_instr(asm.labels, "BNE", REL, l, pc))

\* 'r: .res 200' then ' BEQ r': the branch at $A0C8 to $A000 is emitted as
\* F0 36, which the CPU takes to $A100
C39_Witness ==
    /\ op = "assemble" /\ exc = NoExc
    /\ args[1] = "r: .res 200\n BEQ r\n"
    /\ asm.labels = [l \in {"r"} |-> 40960]
    /\ ret[1].len = 202
    /\ bytes_at(ret[1], 200, 2) = <<240, 54>>

---------------------------------------------------------------------------
(* What reset() leaves alone.                                              *)

\* C40: reset() changes CPU state only: it writes nothing, so every memory
\* byte, both handler tables and the output are the same after it as
\* before, and PC is the word at $FFFC/$FFFD of that unchanged memory; the
\* reset vector and a loaded ROM image survive any number of resets.
C40_ResetFrame ==
    [][op' = "reset" =>
          /\ data' = data
          /\ read_handlers' = read_handlers
          /\ write_handlers' = write_handlers
          /\ out' = out
          /\ bus' = <<>>
          /\ PC' = Word(Peek(65533), Peek(65532))
          /\ A' = 0 /\ X' = 0 /\ Y' = 0 /\ SP' = 253 /\ P' = 36]_vars

\* a reset as the third operation on the machine loaded with LDA #$10 at
\* $A000: the image and the vector are still there
C40_Witness ==
    /\ op = "reset" /\ steps = 3 /\ ir = <<>>
    /\ Peek(40960) = 169 /\ Peek(40961) = 16
    /\ Peek(65532) = 0 /\ Peek(65533) = 160
    /\ PC = 40960 /\ A = 0

===========================================================================
